---- MODULE Spec2Model ----
(***************************************************************************)
(* Model of the EnergyDrinkFinder HTTP handlers and of the tables they     *)
(* read and write.                                                         *)
(*                                                                         *)
(*   POST /api/scan           src/src/app/api/scan/route.ts                *)
(*   GET  /api/stores/nearby  src/src/app/api/stores/nearby/route.ts       *)
(*   schema and triggers      src/db/migrations/001_initial_schema.sql     *)
(*                                                                         *)
(* Every `await sql` of a handler is one atomic step (one autocommitted    *)
(* statement); the steps of concurrent requests interleave freely.         *)
(*                                                                         *)
(* Units.  Coordinates are whole kilometres on a grid, and the distance    *)
(* of two points is their Manhattan distance, in metres as ST_Distance     *)
(* reports it.  The same metric stands for ST_Distance, ST_DWithin and     *)
(* the <-> ordering operator.  Request prices are in thousandths of a      *)
(* currency unit, the DECIMAL(6, 2) price column is in hundredths.         *)
(* Timestamps are ticks of the database clock `now`.                       *)
(***************************************************************************)
EXTENDS Integers, Sequences, FiniteSets, TLC

(***************************************************************************)
(* Bounds of the model.                                                    *)
(***************************************************************************)
\* scan requests accepted in one behaviour, each with a handler of its own
MaxScans == 2
\* ticks of the database clock
MaxClock == 2
\* largest coordinate a request carries (km on the grid)
MaxCoord == 2
\* largest radius a nearby request carries (km)
MaxRadius == 2
\* largest limit a nearby request carries
MaxLimit == 2
\* most candidates the geocoding provider returns for one query
MaxCandidates == 2
\* last id the sequence of energy_drinks hands out
MaxDrinkId == 3
\* most elements the Overpass service returns for one request
MaxElements == 2
\* last id the sequence of stores hands out
MaxStoreId == 3
\* most addresses one call of batchGeocodeAddresses is given
MaxAddresses == 2
\* most products of the catalog the autocomplete endpoint searches
MaxCatalog == 21
\* most scan requests the add-inventory page sends in one behaviour
MaxRequests == 2
\* most requests the search-as-you-type component sends in one behaviour
MaxFetches == 3
\* most lookups the scan page starts in one behaviour
MaxLookups == 2
\* most entries of the seed file the ingest script reads in one behaviour
MaxSeed == 2

(***************************************************************************)
(* JavaScript values, tagged by type so that values of different types     *)
(* can be compared.                                                        *)
(***************************************************************************)
Undefined == [t |-> "undefined"]
NaN == [t |-> "NaN"]
Num(n) == [t |-> "number", n |-> n]
Str(s) == [t |-> "string", s |-> s]
Bool(b) == [t |-> "boolean", b |-> b]

\* `!v` of JavaScript
Falsy(v) ==
    \/ v.t = "undefined"
    \/ v.t = "NaN"
    \/ (v.t = "number" /\ v.n = 0)
    \/ (v.t = "string" /\ v.s = "")
    \/ (v.t = "boolean" /\ ~v.b)
    \/ v.t = "null"
    \/ (v.t = "text" /\ v.c = <<>>)

Abs(x) == IF x < 0 THEN -x ELSE x

(***************************************************************************)
(* The database.                                                           *)
(***************************************************************************)
VARIABLES
    stores,            \* table stores: rows [id, latitude, longitude, location], and
                       \* [name, address, city, state] where stores are imported
    stores_seq,        \* last value of the SERIAL sequence of stores.id
    energy_drinks,     \* table energy_drinks: rows [id, brand, flavor, size_ml, caffeine_mg, barcode]
    drinks_seq,        \* last value of the SERIAL sequence of energy_drinks.id
    store_inventory,   \* table store_inventory: rows [id, store_id, drink_id, price, in_stock, last_updated]
    inventory_seq,     \* last value of the SERIAL sequence of store_inventory.id
    now,               \* CURRENT_TIMESTAMP
    nscans,            \* scan requests accepted so far
    scan,              \* scan handler slot -> its request, position and response
    nearby,            \* the nearby handler: its request, position and response
    env,               \* process.env: the configuration of the server process
    geocode,           \* the geocode handler: its request, position and response
    manage,            \* the catalog manage handler: its last request and response
    discover,          \* the discover handler: its request, position and response
    autocomplete,      \* the autocomplete handler: its last query and response
    search,            \* the search handler: its last request and response
    batch,             \* the batch geocoder: its addresses, position and log
    addpage,           \* the add-inventory page: its state, its scanning callback, its requests
    drinksearch,       \* the search-as-you-type component: its state, timer and requests
    scanpage,          \* the scan page: its state, its reader and its lookups
    ingest,            \* the ingest script: its entry, its position and what it ingested
    concurrent         \* a second discover handler, running beside `discover`

vars ==
    <<stores, stores_seq, energy_drinks, drinks_seq, store_inventory, inventory_seq, now, nscans, scan, nearby,
      env, geocode, manage, discover, autocomplete, search, batch, addpage, drinksearch, scanpage, ingest,
      concurrent>>

\* the pages of the browser, the ingest script and the second discover handler
otherVars == <<addpage, drinksearch, scanpage, ingest, concurrent>>

\* the state of the handlers and scripts other than scan and nearby
svcVars == <<env, geocode, manage, discover, autocomplete, search, batch>>

dbVars == <<stores, stores_seq, energy_drinks, drinks_seq, store_inventory, inventory_seq, now>>

\* ST_SetSRID(ST_MakePoint(longitude, latitude), 4326)::geography
ST_MakePoint(longitude, latitude) == <<longitude, latitude>>

\* ST_Distance(a, b), metres
ST_Distance(a, b) == 1000 * (Abs(a[1] - b[1]) + Abs(a[2] - b[2]))

\* trigger store_location_trigger: location is derived from longitude/latitude
update_store_location_Keep(row) == row

update_store_location(row) ==
    [row EXCEPT !.location = ST_MakePoint(row.longitude, row.latitude)]

StoreRow(id, latitude, longitude) ==
    update_store_location(
        [id |-> id, latitude |-> latitude, longitude |-> longitude, location |-> <<0, 0>>])

\* the stores of the installation: two of them 2 km apart, one far away
SampleStores == {StoreRow(1, 1, 1), StoreRow(2, 1, 3), StoreRow(3, 14, 1)}

\* the product catalog: unique barcodes
DrinkRow(id, brand, flavor, size_ml, caffeine_mg, barcode) ==
    [id |-> id, brand |-> brand, flavor |-> flavor, size_ml |-> size_ml,
     caffeine_mg |-> caffeine_mg, barcode |-> barcode]

SampleDrinks ==
    {DrinkRow(1, "Red Bull", "Original", 250, Num(80), Str("b1")),
     DrinkRow(2, "Monster", "Original", 473, Num(160), Str("b2"))}

\* sample inventory of the initial migration
SampleInventory ==
    {[id |-> 1, store_id |-> 1, drink_id |-> 1, price |-> 299, in_stock |-> TRUE,
      last_updated |-> 0]}

(***************************************************************************)
(* SQL statements of the handlers.                                         *)
(***************************************************************************)
\* SELECT ... FROM energy_drinks WHERE barcode = ${body.barcode} LIMIT 1
SelectDrinkByBarcode(barcode) ==
    {d \in energy_drinks : barcode.t \in {"string", "text"} /\ d.barcode = barcode}

\* SELECT ... FROM stores WHERE id = ${body.store_id} LIMIT 1
SelectStoreById(store_id) ==
    {s \in stores : store_id.t = "number" /\ s.id = store_id.n}

\* mutant: the ORDER BY is missing and LIMIT 1 returns any row
SelectNearestStore_Unordered(point) == stores

\* the rows a statement may return for
\* SELECT ... FROM stores ORDER BY location <-> point LIMIT 1
SelectNearestStore(point) ==
    {s \in stores :
        \A o \in stores : ST_Distance(s.location, point) <= ST_Distance(o.location, point)}

\* a value cast to DECIMAL(6, 2): rounded half away from zero to hundredths
ToDecimal62(thousandths) ==
    IF thousandths >= 0 THEN (thousandths + 5) \div 10
    ELSE -((5 - thousandths) \div 10)

\* "numeric field overflow": DECIMAL(6, 2) holds absolute values below 10^4
NumericOverflow(hundredths) == Abs(hundredths) >= 1000000

\* trigger inventory_timestamp_trigger, BEFORE UPDATE
update_inventory_timestamp(row) == [row EXCEPT !.last_updated = now]

\* the rows of store_inventory in conflict with (store_id, drink_id)
ConflictRows(inv, store_id, drink_id) ==
    {row \in inv : row.store_id = store_id /\ row.drink_id = drink_id}

\* mutant: a plain INSERT with no UNIQUE (store_id, drink_id) to stop it
UpsertInventory_PlainInsert(inv, id, store_id, drink_id, price, in_stock) ==
    inv \cup {[id |-> id, store_id |-> store_id, drink_id |-> drink_id,
               price |-> price, in_stock |-> in_stock, last_updated |-> now]}

\* mutant: the conflicting row is deleted and a new row inserted in its place
UpsertInventory_Replace(inv, id, store_id, drink_id, price, in_stock) ==
    (inv \ ConflictRows(inv, store_id, drink_id))
        \cup {[id |-> id, store_id |-> store_id, drink_id |-> drink_id,
                price |-> price, in_stock |-> in_stock, last_updated |-> now]}

\* INSERT INTO store_inventory ... ON CONFLICT (store_id, drink_id) DO UPDATE SET ...
\* the table after the statement; `id` is the sequence value drawn for the insert
UpsertInventory(inv, id, store_id, drink_id, price, in_stock) ==
    IF ConflictRows(inv, store_id, drink_id) = {}
    THEN inv \cup {[id |-> id, store_id |-> store_id, drink_id |-> drink_id,
                    price |-> price, in_stock |-> in_stock, last_updated |-> now]}
    ELSE {IF row \in ConflictRows(inv, store_id, drink_id)
          THEN update_inventory_timestamp(
                   [row EXCEPT !.price = price, !.in_stock = in_stock,
                               !.last_updated = now])
          ELSE row : row \in inv}

\* a table without the REFERENCES constraints
ForeignKeyViolation_None(store_id, drink_id) == FALSE

\* store_id REFERENCES stores(id), drink_id REFERENCES energy_drinks(id):
\* the INSERT fails when a referenced row is gone
ForeignKeyViolation(store_id, drink_id) ==
    \/ \A s \in stores : s.id # store_id
    \/ \A d \in energy_drinks : d.id # drink_id

\* RETURNING id, store_id, drink_id, price, in_stock, last_updated
Returning(inv, store_id, drink_id) == ConflictRows(inv, store_id, drink_id)

(***************************************************************************)
(* POST /api/scan                                                          *)
(***************************************************************************)
ScanBody(barcode, store_id, latitude, longitude, price, in_stock) ==
    [barcode |-> barcode, store_id |-> store_id, latitude |-> latitude,
     longitude |-> longitude, price |-> price, in_stock |-> in_stock]

NoBody == ScanBody(Undefined, Undefined, Undefined, Undefined, Undefined, Undefined)

NoRow ==
    [id |-> 0, store_id |-> 0, drink_id |-> 0, price |-> 0, in_stock |-> FALSE,
     last_updated |-> 0]

\* NextResponse.json<ScanResponse>(...): inventory and was_created are `data`
ScanResponse(status, success, inventory, was_created) ==
    [status |-> status, success |-> success, inventory |-> inventory,
     was_created |-> was_created]

NoResponse == ScanResponse(0, FALSE, NoRow, FALSE)

ErrorResponse(status) == ScanResponse(status, FALSE, NoRow, FALSE)

IdleScan ==
    [pc |-> "idle", body |-> NoBody, drink |-> 0, store |-> 0, byCoords |-> FALSE,
     distance_m |-> 0, warned |-> FALSE, response |-> NoResponse]

Handlers == 1..MaxScans

\* the handler answers and returns
Answer(r, response) ==
    scan' = [scan EXCEPT ![r].pc = "done", ![r].response = response]

\* lines 26-50: the body is parsed and validated
ScanReceive(r, body) ==
    /\ nscans < MaxScans
    /\ scan[r].pc = "idle"
    /\ nscans' = nscans + 1
    /\ IF Falsy(body.barcode)
       THEN scan' = [scan EXCEPT ![r] =
                [IdleScan EXCEPT !.pc = "done", !.body = body,
                                 !.response = ErrorResponse(400)]]
       ELSE IF Falsy(body.store_id) /\ (Falsy(body.latitude) \/ Falsy(body.longitude))
       THEN scan' = [scan EXCEPT ![r] =
                [IdleScan EXCEPT !.pc = "done", !.body = body,
                                 !.response = ErrorResponse(400)]]
       ELSE scan' = [scan EXCEPT ![r] =
                [IdleScan EXCEPT !.pc = "lookupDrink", !.body = body]]
    /\ UNCHANGED <<dbVars, nearby, svcVars, otherVars>>

\* lines 52-71: the drink is looked up by barcode
ScanLookupDrink(r) ==
    /\ scan[r].pc = "lookupDrink"
    /\ LET drinkResult == SelectDrinkByBarcode(scan[r].body.barcode)
       IN IF drinkResult = {}
          THEN Answer(r, ErrorResponse(404))
          ELSE \E drink \in drinkResult :
                  scan' = [scan EXCEPT ![r].pc = "resolveStore", ![r].drink = drink.id]
    /\ UNCHANGED <<dbVars, nscans, nearby, svcVars, otherVars>>

\* lines 73-129: the store is looked up by id, or the nearest store is taken
ScanResolveStore(r) ==
    /\ scan[r].pc = "resolveStore"
    /\ LET body == scan[r].body
           point == ST_MakePoint(body.longitude.n, body.latitude.n)
       IN IF ~Falsy(body.store_id)
          THEN LET storeResult == SelectStoreById(body.store_id)
               IN IF storeResult = {}
                  THEN Answer(r, ErrorResponse(404))
                  ELSE \E store \in storeResult :
                          scan' = [scan EXCEPT ![r].pc = "upsert", ![r].store = store.id]
          ELSE LET nearestStoreResult == SelectNearestStore(point)
               IN IF nearestStoreResult = {}
                  THEN Answer(r, ErrorResponse(404))
                  ELSE \E store \in nearestStoreResult :
                          LET distance_m == ST_Distance(store.location, point)
                          IN scan' = [scan EXCEPT ![r].pc = "upsert",
                                                  ![r].store = store.id,
                                                  ![r].byCoords = TRUE,
                                                  ![r].distance_m = distance_m,
                                                  \* distanceKm > 1
                                                  ![r].warned = distance_m > 1 * 1000]
    /\ UNCHANGED <<dbVars, nscans, nearby, svcVars, otherVars>>

\* line 132: const price = body.price || 0
ScanPrice(body) == IF Falsy(body.price) THEN 0 ELSE body.price.n

\* mutant: const inStock = body.in_stock || true
ScanInStock_OrTrue(body) == IF Falsy(body.in_stock) THEN TRUE ELSE body.in_stock.b

\* line 133: const inStock = body.in_stock !== undefined ? body.in_stock : true
ScanInStock(body) == IF body.in_stock # Undefined THEN body.in_stock.b ELSE TRUE

\* line 150: const wasCreated = inventoryResult.length > 0
WasCreated(inventoryResult) == Cardinality(inventoryResult) > 0

\* lines 131-166: the inventory row is upserted and the handler answers;
\* lines 167-177: a failed statement is answered with 500
ScanUpsert(r) ==
    /\ scan[r].pc = "upsert"
    /\ LET body == scan[r].body
           price == ToDecimal62(ScanPrice(body))
           inStock == ScanInStock(body)
           table == UpsertInventory(store_inventory, inventory_seq + 1,
                                    scan[r].store, scan[r].drink, price, inStock)
           inventoryResult == Returning(table, scan[r].store, scan[r].drink)
       IN IF NumericOverflow(price)
          THEN /\ Answer(r, ErrorResponse(500))
               /\ UNCHANGED <<store_inventory, inventory_seq>>
          ELSE IF ForeignKeyViolation(scan[r].store, scan[r].drink)
          THEN \* the row's id was drawn before the constraint is checked
               /\ Answer(r, ErrorResponse(500))
               /\ inventory_seq' = inventory_seq + 1
               /\ UNCHANGED store_inventory
          ELSE /\ store_inventory' = table
               /\ inventory_seq' = inventory_seq + 1
               /\ \E inventory \in inventoryResult :
                     Answer(r, ScanResponse(200, TRUE, inventory,
                                            WasCreated(inventoryResult)))
    /\ UNCHANGED <<stores, stores_seq, energy_drinks, drinks_seq, now, nscans, nearby, svcVars, otherVars>>

\* the response is delivered and the handler is free for the next request
ScanReturn(r) ==
    /\ scan[r].pc = "done"
    /\ scan' = [scan EXCEPT ![r] = IdleScan]
    /\ UNCHANGED <<dbVars, nscans, nearby, svcVars, otherVars>>

\* the database clock advances
Tick ==
    /\ now < MaxClock
    /\ now' = now + 1
    /\ UNCHANGED <<stores, stores_seq, energy_drinks, drinks_seq, store_inventory, inventory_seq, nscans, scan,
                    nearby, svcVars, otherVars>>

(***************************************************************************)
(* GET /api/stores/nearby                                                  *)
(***************************************************************************)
\* searchParams.get(name): null, or the text of the parameter as its characters
Null == [t |-> "null"]
Text(c) == [t |-> "text", c |-> c]

DigitChars == <<"0", "1", "2", "3", "4", "5", "6", "7", "8", "9">>

IsDigit(ch) == \E i \in 1..10 : DigitChars[i] = ch

DigitValue(ch) == (CHOOSE i \in 1..10 : DigitChars[i] = ch) - 1

\* the decimal numeral of a natural number, as characters
RECURSIVE Numeral(_)
Numeral(k) ==
    IF k < 10 THEN <<DigitChars[k + 1]>>
    ELSE Append(Numeral(k \div 10), DigitChars[(k % 10) + 1])

\* the value of the longest prefix of digits of c, read after the digits `acc`
RECURSIVE DigitsValue(_, _)
DigitsValue(c, acc) ==
    IF c = <<>> \/ ~IsDigit(Head(c)) THEN acc
    ELSE DigitsValue(Tail(c), 10 * acc + DigitValue(Head(c)))

\* parseFloat(text) and parseInt(text) on whole numerals: an optional sign,
\* then the longest prefix of digits; NaN when there is no digit
ParseNumber(c) ==
    IF c # <<>> /\ Head(c) = "-"
    THEN IF Tail(c) # <<>> /\ IsDigit(Head(Tail(c)))
         THEN Num(-DigitsValue(Tail(c), 0)) ELSE NaN
    ELSE IF c # <<>> /\ IsDigit(Head(c)) THEN Num(DigitsValue(c, 0)) ELSE NaN

\* `param || fallback` then parseFloat / parseInt
ParseParam(param, fallback) ==
    IF param.t = "null" \/ param.c = <<>> THEN ParseNumber(fallback)
    ELSE ParseNumber(param.c)

\* line 35: the default radius, km
DefaultRadius == 10
\* line 36: the default limit
DefaultLimit == 10

NearbyParams(latitude, longitude, radius, limit) ==
    [latitude |-> latitude, longitude |-> longitude, radius |-> radius, limit |-> limit]

\* NextResponse.json<NearbyStoresResponse>(...): stores is `data.stores`,
\* each entry [id, distance_km]
NearbyResponse(status, success, storeList) ==
    [status |-> status, success |-> success, stores |-> storeList]

IdleNearby ==
    [pc |-> "idle", params |-> NearbyParams(Null, Null, Null, Null),
     latitude |-> NaN, longitude |-> NaN, radius |-> NaN, limit |-> NaN,
     response |-> NearbyResponse(0, FALSE, <<>>)]

\* lines 32-48: the query parameters are parsed and validated
NearbyReceive(params) ==
    /\ nearby.pc = "idle"
    /\ LET latitude == ParseParam(params.latitude, <<>>)
           longitude == ParseParam(params.longitude, <<>>)
           radius == ParseParam(params.radius, Numeral(DefaultRadius))
           limit == ParseParam(params.limit, Numeral(DefaultLimit))
       IN IF Falsy(latitude) \/ Falsy(longitude) \/ latitude = NaN \/ longitude = NaN
          THEN nearby' = [IdleNearby EXCEPT !.pc = "done", !.params = params,
                                            !.response = NearbyResponse(400, FALSE, <<>>)]
          ELSE nearby' = [IdleNearby EXCEPT !.pc = "query", !.params = params,
                                            !.latitude = latitude, !.longitude = longitude,
                                            !.radius = radius, !.limit = limit]
    /\ UNCHANGED <<dbVars, nscans, scan, svcVars, otherVars>>

\* mutant: the radius is passed in kilometres where metres are expected
StoresWithin_Kilometres(point, radius) ==
    {s \in stores : ST_Distance(s.location, point) <= radius}

\* WHERE ST_DWithin(location, point, ${radius * 1000})
StoresWithin(point, radius) ==
    {s \in stores : ST_Distance(s.location, point) <= radius * 1000}

\* the sequences that list every row of `rows` once
Orderings(rows) ==
    {o \in [1..Cardinality(rows) -> rows] : \A i, j \in DOMAIN o : i # j => o[i] # o[j]}

\* mutant: the ORDER BY is missing
OrderedByDistance_Unordered(rows, point) == Orderings(rows)

\* ORDER BY location <-> point: the orders the statement may return the rows in
OrderedByDistance(rows, point) ==
    {o \in Orderings(rows) :
        \A i, j \in DOMAIN o :
            i < j => ST_Distance(o[i].location, point) <= ST_Distance(o[j].location, point)}

\* LIMIT ${limit}
Limit(o, limit) == SubSeq(o, 1, IF limit < Len(o) THEN limit ELSE Len(o))

\* lines 68-78: storesResult.map(...)
MapNearbyRows(o, point) ==
    [i \in DOMAIN o |->
        [id |-> o[i].id, distance_km |-> ST_Distance(o[i].location, point) \div 1000]]

\* lines 50-87: the query runs and the handler answers;
\* lines 88-98: a failed statement (LIMIT NaN, LIMIT below 0) is answered with 500
NearbyQuery ==
    /\ nearby.pc = "query"
    /\ LET point == ST_MakePoint(nearby.longitude.n, nearby.latitude.n)
       IN IF nearby.limit = NaN \/ nearby.limit.n < 0
          THEN nearby' = [nearby EXCEPT !.pc = "done",
                                        !.response = NearbyResponse(500, FALSE, <<>>)]
          ELSE \E o \in OrderedByDistance(StoresWithin(point, nearby.radius.n), point) :
                  nearby' = [nearby EXCEPT !.pc = "done",
                      !.response = NearbyResponse(200, TRUE,
                          MapNearbyRows(Limit(o, nearby.limit.n), point))]
    /\ UNCHANGED <<dbVars, nscans, scan, svcVars, otherVars>>

\* the response is delivered
NearbyReturn ==
    /\ nearby.pc = "done"
    /\ nearby' = IdleNearby
    /\ UNCHANGED <<dbVars, nscans, scan, svcVars, otherVars>>

(***************************************************************************)
(* Requests.                                                               *)
(***************************************************************************)
Coords == 0..MaxCoord

\* scans of concurrent clients: a known barcode at store 1, by id or from a
\* point halfway between stores 1 and 2, with and without price and in_stock,
\* and an unknown barcode
ConcurrentBodies ==
    {ScanBody(Str("b1"), Num(1), Undefined, Undefined, price, in_stock) :
        price \in {Undefined, Num(2995)}, in_stock \in {Undefined, Bool(FALSE)}}
    \cup
    {ScanBody(Str("b1"), Undefined, Num(1), Num(2), price, Undefined) :
        price \in {Undefined, Num(2995)}}
    \cup
    {ScanBody(Str("b9"), Num(1), Undefined, Undefined, Undefined, Undefined)}

\* every shape of the identification fields of a scan, with no price or with
\* a price the price column cannot hold
ScanBodies ==
    {ScanBody(barcode, store_id, latitude, longitude, price, in_stock) :
        barcode \in {Undefined, Str(""), Str("b1"), Str("b9")},
        store_id \in {Undefined, Num(0), Num(1), Num(9)},
        latitude \in {Undefined} \cup {Num(c) : c \in Coords},
        longitude \in {Undefined} \cup {Num(c) : c \in Coords},
        price \in {Undefined, Num(10000000)},
        in_stock \in {Undefined}}

NearbyRequests ==
    {NearbyParams(latitude, longitude, radius, limit) :
        latitude \in {Null, Text(<<>>), Text(<<"a">>)} \cup {Text(Numeral(c)) : c \in Coords},
        longitude \in {Null, Text(<<"a">>)} \cup {Text(Numeral(c)) : c \in Coords},
        radius \in {Null} \cup {Text(Numeral(k)) : k \in 0..MaxRadius},
        limit \in {Null, Text(<<"a">>), Text(<<"-", "1">>)}
                    \cup {Text(Numeral(k)) : k \in 0..MaxLimit}}

(***************************************************************************)
(* The geocoding library and the geocode endpoints.                        *)
(*   src/src/lib/geocode.ts, src/unnamed/part_003 lines 1-199              *)
(* A string is the sequence of its pieces, each piece one blank or one     *)
(* run of non-blank characters.                                            *)
(***************************************************************************)
\* a sentence: its words with one blank between two neighbours
RECURSIVE Words(_)
Words(w) ==
    IF Len(w) <= 1 THEN w ELSE <<Head(w), " ">> \o Words(Tail(w))

\* String.prototype.trim
RECURSIVE TrimStart(_)
TrimStart(c) ==
    IF c # <<>> /\ Head(c) = " " THEN TrimStart(Tail(c)) ELSE c

RECURSIVE TrimEnd(_)
TrimEnd(c) ==
    IF c # <<>> /\ c[Len(c)] = " " THEN TrimEnd(SubSeq(c, 1, Len(c) - 1)) ELSE c

Trim(c) == TrimEnd(TrimStart(c))

\* String.prototype.toLowerCase, on the pieces that have upper-case letters
UpperLower ==
    << <<"No", "no">>, <<"NO", "no">>, <<"Results", "results">>, <<"Found", "found">>,
       <<"Geocoding", "geocoding">>, <<"API", "api">>, <<"Address", "address">>,
       <<"GEOCODING_API_KEY", "geocoding_api_key">>, <<"US", "us">>, <<"Elm", "elm">>,
       <<"Reno", "reno">>, <<"RENO", "reno">>, <<"NV", "nv">>, <<"Main", "main">>,
       <<"MAIN", "main">>, <<"St", "st">>, <<"ST", "st">>, <<"R", "r">>, <<"B", "b">>,
       <<"M", "m">>, <<"O", "o">>, <<"U", "u">>, <<"Internal", "internal">>,
       <<"Server", "server">>, <<"Error", "error">> >>

ToLowerCasePiece(p) ==
    IF \E i \in 1..Len(UpperLower) : UpperLower[i][1] = p
    THEN UpperLower[CHOOSE i \in 1..Len(UpperLower) : UpperLower[i][1] = p][2]
    ELSE p

ToLowerCase(c) == [i \in 1..Len(c) |-> ToLowerCasePiece(c[i])]

\* String.prototype.includes
Includes(c, needle) ==
    \E i \in 1..(Len(c) - Len(needle) + 1) : SubSeq(c, i, i + Len(needle) - 1) = needle

\* `a || b`
Or(a, b) == IF Falsy(a) THEN b ELSE a

\* String(v) of a value that Array.prototype.join meets
StringOf(v) == IF v.t = "number" THEN Numeral(v.n) ELSE v.c

\* Array.prototype.join(' ')
RECURSIVE JoinBlank(_)
JoinBlank(parts) ==
    IF parts = <<>> THEN <<>>
    ELSE IF Len(parts) = 1 THEN StringOf(parts[1])
    ELSE StringOf(Head(parts)) \o <<" ">> \o JoinBlank(Tail(parts))

Truthy(v) == ~Falsy(v)

US == Text(<<"US">>)

AddressComponents(address, city, state, zip_code, country) ==
    [t |-> "object", address |-> address, city |-> city, state |-> state,
     zip_code |-> zip_code, country |-> country]

\* geocodeAddress lines 48-60: the query string of an address
QueryAddress(address) ==
    IF address.t = "text" THEN address.c
    ELSE JoinBlank(SelectSeq(<<address.address, address.city, address.state,
                               address.zip_code, Or(address.country, US)>>, Truthy))

\* the messages of the errors geocodeAddress throws
KeyMissingMessage ==
    Words(<<"GEOCODING_API_KEY", "not", "found", "in", "environment", "variables">>)

EmptyAddressMessage == Words(<<"Address", "cannot", "be", "empty">>)

ApiErrorMessage(status, statusText, errorText) ==
    Words(<<"Geocoding", "API", "error:">>) \o <<" ">> \o Numeral(status) \o <<" ">>
        \o statusText \o <<" ", "-", " ">> \o errorText

NoResultsMessage(queryAddress) ==
    Words(<<"No", "results", "found", "for", "address:">>) \o <<" ">> \o queryAddress

FetchFailedMessage == Words(<<"fetch", "failed">>)

\* line 99: the catch of geocodeAddress wraps the message
GeocodingFailed(message) == Words(<<"Geocoding", "failed:">>) \o <<" ">> \o message

\* what the provider does with one request
NetworkError == [kind |-> "network"]
HttpError(status, statusText, errorText) ==
    [kind |-> "http", status |-> status, statusText |-> statusText, errorText |-> errorText]
Candidates(data) == [kind |-> "json", data |-> data]
Candidate(lat, lon, display_name) ==
    [lat |-> lat, lon |-> lon, display_name |-> display_name]
NoOutcome == [kind |-> "none"]

\* lines 77-102: the result of geocodeAddress after the provider's reply,
\* [ok |-> TRUE, value |-> GeocodeResult] or [ok |-> FALSE, message |-> ...]
Resolved(value) == [ok |-> TRUE, value |-> value]
Thrown(message) == [ok |-> FALSE, message |-> message]

GeocodeResult(latitude, longitude, display_name) ==
    [latitude |-> latitude, longitude |-> longitude, display_name |-> display_name]

AfterFetch(queryAddress, outcome) ==
    IF outcome.kind = "network" THEN Thrown(GeocodingFailed(FetchFailedMessage))
    ELSE IF outcome.kind = "http"
    THEN Thrown(GeocodingFailed(
             ApiErrorMessage(outcome.status, outcome.statusText, outcome.errorText)))
    ELSE IF outcome.data = <<>>
    THEN Thrown(GeocodingFailed(NoResultsMessage(queryAddress)))
    ELSE Resolved(GeocodeResult(ParseNumber(outcome.data[1].lat),
                                ParseNumber(outcome.data[1].lon),
                                outcome.data[1].display_name))

\* lines 41-64: what geocodeAddress does before it awaits the provider,
\* an error thrown or the query to fetch
BeforeFetch(address) ==
    IF Falsy(env.GEOCODING_API_KEY) THEN Thrown(KeyMissingMessage)
    ELSE IF Trim(QueryAddress(address)) = <<>> THEN Thrown(EmptyAddressMessage)
    ELSE Resolved(QueryAddress(address))

\* process.env with and without the key of the geocoding provider
ConfiguredEnv == [GEOCODING_API_KEY |-> Str("key")]
UnconfiguredEnv == [GEOCODING_API_KEY |-> Undefined]

\* a request of either method: the JSON body of a POST, the query parameters of a GET
GeocodeRequest(method, q, address, city, state, zip, zip_code, country) ==
    [method |-> method, q |-> q, address |-> address, city |-> city, state |-> state,
     zip |-> zip, zip_code |-> zip_code, country |-> country]

NoRequest == [method |-> "none"]

\* POST lines 58-59
HasFullAddress(body) == Truthy(body.address) /\ body.address.t = "text"
HasComponents(body) == Truthy(body.city) \/ Truthy(body.state) \/ Truthy(body.zip_code)

\* GET lines 138-141
FullAddress(params) == Or(params.q, params.address)
ZipCode(params) == Or(params.zip, params.zip_code)

\* POST line 61, GET line 145
MissingAddressData(req) ==
    IF req.method = "POST" THEN ~HasFullAddress(req) /\ ~HasComponents(req)
    ELSE /\ Falsy(FullAddress(req))
         /\ Falsy(req.city)
         /\ Falsy(req.state)
         /\ Falsy(ZipCode(req))

\* POST lines 75-87, GET lines 159-171
AddressInput(req) ==
    IF req.method = "POST"
    THEN IF HasFullAddress(req) /\ ~HasComponents(req) THEN req.address
         ELSE AddressComponents(req.address, req.city, req.state, req.zip_code,
                                Or(req.country, US))
    ELSE IF Truthy(FullAddress(req)) /\ Falsy(req.city) /\ Falsy(req.state)
            /\ Falsy(ZipCode(req))
         THEN FullAddress(req)
         ELSE AddressComponents(Or(FullAddress(req), Undefined), Or(req.city, Undefined),
                                Or(req.state, Undefined), Or(ZipCode(req), Undefined),
                                Or(req.country, US))

GeocodeResponse(status, success, data, error) ==
    [status |-> status, success |-> success, data |-> data, error |-> error]

NoGeocodeResponse == GeocodeResponse(0, FALSE, Null, <<>>)

\* POST lines 104-113, GET lines 187-196: the catch of the handlers
NotFoundNeedle == Words(<<"no", "results", "found">>)

IsNotFound(errorMessage) == Includes(ToLowerCase(errorMessage), NotFoundNeedle)

GeocodeCatch(errorMessage) ==
    GeocodeResponse(IF IsNotFound(errorMessage) THEN 404 ELSE 500, FALSE, Null, errorMessage)

IdleGeocode ==
    [pc |-> "idle", request |-> NoRequest, queryAddress |-> <<>>, outcome |-> NoOutcome,
     fetches |-> 0, response |-> NoGeocodeResponse]

\* the handler up to its first await: validation, then geocodeAddress up to fetch
GeocodeReceive(req) ==
    /\ geocode.pc = "idle"
    /\ geocode' =
         IF MissingAddressData(req)
         THEN [geocode EXCEPT !.pc = "done", !.request = req,
                              !.response = GeocodeResponse(400, FALSE, Null,
                                               Words(<<"Missing", "address", "data">>))]
         ELSE IF ~BeforeFetch(AddressInput(req)).ok
         THEN [geocode EXCEPT !.pc = "done", !.request = req,
                              !.response = GeocodeCatch(BeforeFetch(AddressInput(req)).message)]
         ELSE [geocode EXCEPT !.pc = "fetch", !.request = req,
                              !.queryAddress = BeforeFetch(AddressInput(req)).value,
                              !.fetches = 1]
    /\ UNCHANGED <<dbVars, nscans, scan, nearby, otherVars, env, manage, discover, autocomplete, search, batch>>

\* the provider replies, geocodeAddress settles and the handler answers
GeocodeSettle(outcome) ==
    /\ geocode.pc = "fetch"
    /\ geocode' =
         [geocode EXCEPT
            !.pc = "done",
            !.outcome = outcome,
            !.response =
                IF AfterFetch(geocode.queryAddress, outcome).ok
                THEN GeocodeResponse(200, TRUE,
                         AfterFetch(geocode.queryAddress, outcome).value, <<>>)
                ELSE GeocodeCatch(AfterFetch(geocode.queryAddress, outcome).message)]
    /\ UNCHANGED <<dbVars, nscans, scan, nearby, otherVars, env, manage, discover, autocomplete, search, batch>>

GeocodeReturn ==
    /\ geocode.pc = "done"
    /\ geocode' = IdleGeocode
    /\ UNCHANGED <<dbVars, nscans, scan, nearby, otherVars, env, manage, discover, autocomplete, search, batch>>

\* requests and provider replies of the geocode endpoints
PostAddresses ==
    {Undefined, Num(5), Text(<<>>), Text(<<" ">>), Text(Words(<<"1", "Elm">>))}

GeocodeRequests ==
    {GeocodeRequest("POST", Undefined, address, city, state, Undefined, Undefined, country) :
        address \in PostAddresses,
        city \in {Undefined, Text(<<" ">>), Text(<<"Reno">>)},
        state \in {Undefined, Text(<<"NV">>)},
        country \in {Undefined, Text(<<" ">>)}}
    \cup
    {GeocodeRequest("GET", q, address, city, Null, zip, Null, Null) :
        q \in {Null, Text(<<" ">>), Text(Words(<<"1", "Elm">>))},
        address \in {Null, Text(Words(<<"1", "Elm">>))},
        city \in {Null, Text(<<>>), Text(<<"Reno">>)},
        zip \in {Null, Text(<<"89501">>)}}

SampleCandidates ==
    {Candidate(<<"4", "0">>, <<"-", "7">>, Words(<<"1", "Elm", "St">>)),
     Candidate(<<"3", "9">>, <<"-", "8">>, Words(<<"1", "Elm", "Ave">>))}

CandidateLists ==
    UNION {[1..n -> SampleCandidates] : n \in 0..MaxCandidates}

ProviderOutcomes ==
    {NetworkError}
    \cup {HttpError(500, Words(<<"Internal", "Server", "Error">>), errorText) :
            errorText \in {Words(<<"upstream", "timeout">>),
                           Words(<<"No", "results", "found">>)}}
    \cup {Candidates(data) : data \in CandidateLists}

(***************************************************************************)
(* The catalog manage endpoint (Prisma client over energy_drinks).         *)
(*   src/unnamed/part_003 lines 201-343                                    *)
(* Each handler issues one statement; the handler is one step.             *)
(***************************************************************************)
\* parseInt of a JSON value or of a query parameter
ParseInt(v) ==
    IF v.t = "number" THEN v
    ELSE IF v.t = "text" THEN ParseNumber(v.c)
    ELSE NaN

\* the columns of UNIQUE (brand, flavor, size_ml)
DrinkKey(row) == <<row.brand, row.flavor, row.size_ml>>

\* a unique constraint of energy_drinks forbids `row` beside the other rows:
\* UNIQUE (brand, flavor, size_ml) of the schema, UNIQUE barcode of migration 002
UniqueViolation_BarcodeOnly(rows, row) ==
    \E d \in rows : d.id # row.id /\ row.barcode # Null /\ d.barcode = row.barcode

UniqueViolation(rows, row) ==
    \E d \in rows :
        /\ d.id # row.id
        /\ \/ DrinkKey(d) = DrinkKey(row)
           \/ (row.barcode # Null /\ d.barcode = row.barcode)

CreateBody(brand, flavor, size_ml, caffeine_mg, barcode) ==
    [brand |-> brand, flavor |-> flavor, size_ml |-> size_ml,
     caffeine_mg |-> caffeine_mg, barcode |-> barcode]

UpdateBody(id, brand, flavor, size_ml, caffeine_mg, barcode) ==
    [id |-> id, brand |-> brand, flavor |-> flavor, size_ml |-> size_ml,
     caffeine_mg |-> caffeine_mg, barcode |-> barcode]

ManageResponse(status, success, drink) ==
    [status |-> status, success |-> success, drink |-> drink]

\* the error responses of the handlers: { success: false, error } with a status
ManageError(status) == ManageResponse(status, FALSE, Null)

IdleManage == [op |-> "none", request |-> Null, response |-> ManageResponse(0, FALSE, Null)]

\* `caffeine_mg ? parseInt(caffeine_mg) : null`
CaffeineOf(body) == IF Truthy(body.caffeine_mg) THEN ParseInt(body.caffeine_mg) ELSE Null

\* POST lines 242-276: prisma.energy_drinks.create
ManageCreate(body) ==
    /\ drinks_seq < MaxDrinkId
    /\ LET size == ParseInt(body.size_ml)
           row == DrinkRow(drinks_seq + 1, body.brand.s, body.flavor.s, size.n,
                           CaffeineOf(body), Or(body.barcode, Null))
           answer(response) == manage' = [op |-> "create", request |-> body, response |-> response]
       IN  IF Falsy(body.brand) \/ Falsy(body.flavor) \/ Falsy(body.size_ml)
           THEN /\ answer(ManageError(400))
                /\ UNCHANGED <<energy_drinks, drinks_seq>>
           ELSE IF size = NaN
           THEN \* the client rejects NaN for an Int column before any statement
                /\ answer(ManageError(500))
                /\ UNCHANGED <<energy_drinks, drinks_seq>>
           ELSE IF UniqueViolation(energy_drinks, row)
           THEN \* P2002; the failed INSERT has drawn its id from the sequence
                /\ answer(ManageError(500))
                /\ drinks_seq' = drinks_seq + 1
                /\ UNCHANGED energy_drinks
           ELSE /\ answer(ManageResponse(200, TRUE, row))
                /\ drinks_seq' = drinks_seq + 1
                /\ energy_drinks' = energy_drinks \cup {row}
    /\ UNCHANGED <<stores, stores_seq, store_inventory, inventory_seq, now, nscans, scan, nearby,
                   otherVars, env, geocode, discover, autocomplete, search, batch>>

\* the row an update writes: an undefined field of `data` leaves its column alone
UpdatedRow(old, body) ==
    [old EXCEPT !.brand = IF body.brand = Undefined THEN old.brand ELSE body.brand.s,
                !.flavor = IF body.flavor = Undefined THEN old.flavor ELSE body.flavor.s,
                !.size_ml = ParseInt(body.size_ml).n,
                !.caffeine_mg = CaffeineOf(body),
                !.barcode = Or(body.barcode, Null)]

\* PUT lines 279-313: prisma.energy_drinks.update
ManageUpdate(body) ==
    /\ LET id == ParseInt(body.id)
           found == {d \in energy_drinks : d.id = id.n}
           answer(response) == manage' = [op |-> "update", request |-> body, response |-> response]
       IN  IF Falsy(body.id)
           THEN /\ answer(ManageError(400))
                /\ UNCHANGED energy_drinks
           ELSE IF id = NaN \/ ParseInt(body.size_ml) = NaN
           THEN /\ answer(ManageError(500))
                /\ UNCHANGED energy_drinks
           ELSE IF found = {}
           THEN \* P2025: record to update not found
                /\ answer(ManageError(500))
                /\ UNCHANGED energy_drinks
           ELSE LET old == CHOOSE d \in found : TRUE
                    row == UpdatedRow(old, body)
                IN  IF UniqueViolation(energy_drinks, row)
                    THEN /\ answer(ManageError(500))
                         /\ UNCHANGED energy_drinks
                    ELSE /\ answer(ManageResponse(200, TRUE, row))
                         /\ energy_drinks' = (energy_drinks \ {old}) \cup {row}
    /\ UNCHANGED <<stores, stores_seq, drinks_seq, store_inventory, inventory_seq, now, nscans, scan, nearby,
                   otherVars, env, geocode, discover, autocomplete, search, batch>>

\* DELETE lines 316-343: prisma.energy_drinks.delete; the inventory rows of
\* the drink go with it (ON DELETE CASCADE)
ManageDelete(idParam) ==
    /\ LET id == ParseInt(idParam)
           found == {d \in energy_drinks : d.id = id.n}
           answer(response) ==
               manage' = [op |-> "delete", request |-> idParam, response |-> response]
       IN  IF Falsy(idParam)
           THEN /\ answer(ManageError(400))
                /\ UNCHANGED <<energy_drinks, store_inventory>>
           ELSE IF id = NaN
           THEN /\ answer(ManageError(500))
                /\ UNCHANGED <<energy_drinks, store_inventory>>
           ELSE IF found = {}
           THEN \* P2025: record to delete does not exist
                /\ answer(ManageError(500))
                /\ UNCHANGED <<energy_drinks, store_inventory>>
           ELSE /\ answer(ManageResponse(200, TRUE, Null))
                /\ energy_drinks' = energy_drinks \ found
                /\ store_inventory' = {i \in store_inventory : i.drink_id # id.n}
    /\ UNCHANGED <<stores, stores_seq, drinks_seq, inventory_seq, now, nscans, scan, nearby,
                   otherVars, env, geocode, discover, autocomplete, search, batch>>

\* requests of the manage endpoint
CreateBodies ==
    {CreateBody(brand, flavor, size_ml, Undefined, barcode) :
        brand \in {Undefined, Str("Red Bull"), Str("Monster")},
        flavor \in {Str("Original"), Str("Ultra")},
        size_ml \in {Num(250), Text(<<"4", "7", "3">>), Text(<<"x">>)},
        barcode \in {Undefined, Str("b1")}}

UpdateBodies ==
    {UpdateBody(id, brand, flavor, size_ml, Undefined, barcode) :
        id \in {Undefined} \cup {Num(k) : k \in 1..MaxDrinkId + 1},
        brand \in {Undefined, Str("Monster")},
        flavor \in {Undefined},
        size_ml \in {Undefined, Num(473)},
        barcode \in {Undefined}}

DeleteParams == {Null, Text(<<"x">>)} \cup {Text(Numeral(k)) : k \in 1..MaxDrinkId + 1}

(***************************************************************************)
(* POST /api/stores/discover and the Overpass client.                      *)
(*   src/src/app/api/stores/nearby/route.ts lines 101-251                  *)
(*   src/src/lib/overpass.ts                                               *)
(* The two-letter state column is compared by length, so a state is the    *)
(* sequence of its characters.                                             *)
(***************************************************************************)
\* overpass.ts line 132: the wait before the request, ms
PolitenessDelay == 1000

\* an element of the Overpass reply with the tags the client reads
Element(lat, lon, name, brand, housenumber, street, city, state, postcode) ==
    [lat |-> lat, lon |-> lon, name |-> name, brand |-> brand,
     housenumber |-> housenumber, street |-> street, city |-> city, state |-> state,
     postcode |-> postcode]

GasStation(name, address, city, state, zipCode, latitude, longitude) ==
    [name |-> name, address |-> address, city |-> city, state |-> state,
     zipCode |-> zipCode, latitude |-> latitude, longitude |-> longitude]

Unknown == Text(<<"U", "n", "k", "n", "o", "w", "n">>)

\* overpass.ts lines 99-101: `${streetNumber} ${street}`.trim() || 'Address not available'
StationAddress(element) ==
    Or(Text(Trim(Or(element.housenumber, Text(<<>>)).c \o <<" ">>
                 \o Or(element.street, Text(<<>>)).c)),
       Text(Words(<<"Address", "not", "available">>)))

\* overpass.ts lines 93-113
ToStation(element) ==
    GasStation(Or(Or(element.brand, element.name), Text(Words(<<"Unknown", "Gas", "Station">>))).c,
               StationAddress(element).c,
               Or(element.city, Unknown).c,
               Or(element.state, Unknown).c,
               Or(element.postcode, Text(<<"00000">>)).c,
               element.lat.n, element.lon.n)

\* overpass.ts lines 86-92: the elements with coordinates and a name
HasCoordinatesAndName(element) ==
    Truthy(element.lat) /\ Truthy(element.lon) /\ Truthy(element.name)

\* overpass.ts lines 86-113: data.elements.filter(...).map(...)
Stations(elements) ==
    LET kept == SelectSeq(elements, HasCoordinatesAndName)
    IN  [i \in 1..Len(kept) |-> ToStation(kept[i])]

\* what the Overpass service does with the request
OverpassFailure == [kind |-> "failure"]
OverpassElements(elements) == [kind |-> "json", elements |-> elements]

\* isNaN of a JSON value of the body
IsNaN(v) == v.t \in {"undefined", "NaN"}

DiscoverBody(latitude, longitude, radius, autoImport) ==
    [latitude |-> latitude, longitude |-> longitude, radius |-> radius,
     autoImport |-> autoImport]

\* line 145
InvalidLocation(body) ==
    \/ Falsy(body.latitude)
    \/ Falsy(body.longitude)
    \/ IsNaN(body.latitude)
    \/ IsNaN(body.longitude)

\* line 142: autoImport = false unless the body carries it
AutoImport(body) == body.autoImport # Undefined /\ Truthy(body.autoImport)

StationResult(station, status) == [station |-> station, status |-> status]

DiscoverData(discovered, added, skipped, stationResults) ==
    [discovered |-> discovered, added |-> added, skipped |-> skipped,
     stations |-> stationResults]

DiscoverResponse(status, success, data) ==
    [status |-> status, success |-> success, data |-> data]

NoDiscoverResponse == DiscoverResponse(0, FALSE, Null)

IdleDiscover ==
    [pc |-> "idle", body |-> Null, waited |-> 0, requests |-> 0, overpass |-> "none",
     stations |-> <<>>,
     i |-> 0, results |-> <<>>, added |-> 0, skipped |-> 0,
     response |-> NoDiscoverResponse]

\* lines 181-185: SELECT id FROM stores WHERE LOWER(address) = ... AND LOWER(city) = ...
SelectStoreByAddress_CaseSensitive(address, city) ==
    {s \in stores : s.address = address /\ s.city = city}

SelectStoreByAddress(address, city) ==
    {s \in stores : /\ ToLowerCase(s.address) = ToLowerCase(address)
                    /\ ToLowerCase(s.city) = ToLowerCase(city)}

\* schema line 13: state VARCHAR(2)
StateTooLong(state) == Len(state) > 2

\* the row of the INSERT of lines 194-206, as the BEFORE INSERT trigger leaves it
ImportedStore(id, station) ==
    update_store_location(
        [id |-> id, name |-> station.name, address |-> station.address,
         city |-> station.city, state |-> station.state, zip_code |-> station.zipCode,
         latitude |-> station.latitude, longitude |-> station.longitude,
         location |-> ST_MakePoint(station.longitude, station.latitude)])

\* lines 139-157: validation, then the client starts its wait
DiscoverReceive_NoWait(body) ==
    /\ discover.pc = "idle"
    /\ discover' =
         IF InvalidLocation(body)
         THEN [discover EXCEPT !.pc = "done", !.body = body,
                               !.response = DiscoverResponse(400, FALSE, Null)]
         ELSE [discover EXCEPT !.pc = "fetch", !.body = body, !.requests = @ + 1,
                               !.overpass = "pending"]
    /\ UNCHANGED <<dbVars, nscans, scan, nearby, otherVars, env, geocode, manage, autocomplete, search, batch>>

DiscoverReceive(body) ==
    /\ discover.pc = "idle"
    /\ discover' =
         IF InvalidLocation(body)
         THEN [discover EXCEPT !.pc = "done", !.body = body,
                               !.response = DiscoverResponse(400, FALSE, Null)]
         ELSE [discover EXCEPT !.pc = "wait", !.body = body]
    /\ UNCHANGED <<dbVars, nscans, scan, nearby, otherVars, env, geocode, manage, autocomplete, search, batch>>

\* overpass.ts lines 132-133 and 71: the timeout fires and the request is sent
DiscoverFetch ==
    /\ discover.pc = "wait"
    /\ discover' = [discover EXCEPT !.pc = "fetch", !.waited = PolitenessDelay,
                                    !.requests = @ + 1, !.overpass = "pending"]
    /\ UNCHANGED <<dbVars, nscans, scan, nearby, otherVars, env, geocode, manage, autocomplete, search, batch>>

\* lines 216-223: the answer of a run with autoImport
ImportResponse(d) ==
    DiscoverResponse(200, TRUE,
        DiscoverData(Len(d.stations), d.added, d.skipped, d.results))

\* the loop of line 178 moves to the next station, or the handler answers
NextStation_EndRun(d) == [d EXCEPT !.pc = "done", !.response = ImportResponse(d)]

NextStation(d) ==
    IF d.i < Len(d.stations) THEN [d EXCEPT !.pc = "check", !.i = @ + 1]
    ELSE [d EXCEPT !.pc = "done", !.response = ImportResponse(d)]

\* the service replies: lines 157-175 and 226-250, overpass.ts lines 79-119
DiscoverSettle(outcome) ==
    /\ discover.pc = "fetch"
    /\ discover' =
         IF outcome.kind = "failure"
         THEN [discover EXCEPT !.pc = "done", !.overpass = "failed",
                               !.response = DiscoverResponse(500, FALSE, Null)]
         ELSE LET found == Stations(outcome.elements)
                  d == [discover EXCEPT !.stations = found, !.overpass = "replied"]
              IN  IF AutoImport(discover.body)
                  THEN NextStation(d)
                  ELSE [d EXCEPT
                          !.pc = "done",
                          !.response =
                              DiscoverResponse(200, TRUE,
                                  DiscoverData(Len(found), 0, 0,
                                      [k \in 1..Len(found) |->
                                          StationResult(found[k], "skipped")]))]
    /\ UNCHANGED <<dbVars, nscans, scan, nearby, otherVars, env, geocode, manage, autocomplete, search, batch>>

\* lines 179-191 and 210-213: the lookup of the station; `ok` is FALSE when
\* the statement fails
DiscoverCheck(ok) ==
    /\ discover.pc = "check"
    /\ LET station == discover.stations[discover.i]
           existing == SelectStoreByAddress(station.address, station.city)
       IN  discover' =
             IF ~ok
             THEN NextStation([discover EXCEPT
                                 !.results = Append(@, StationResult(station, "error"))])
             ELSE IF existing # {}
             THEN NextStation([discover EXCEPT
                                 !.skipped = @ + 1,
                                 !.results = Append(@, StationResult(station, "skipped"))])
             ELSE [discover EXCEPT !.pc = "insert"]
    /\ UNCHANGED <<dbVars, nscans, scan, nearby, otherVars, env, geocode, manage, autocomplete, search, batch>>

\* lines 193-213: the INSERT of the station; `ok` is FALSE when the statement
\* fails before it reaches the table
DiscoverInsert(ok) ==
    /\ discover.pc = "insert"
    /\ stores_seq < MaxStoreId
    /\ LET station == discover.stations[discover.i]
       IN  IF ~ok
           THEN /\ discover' =
                     NextStation([discover EXCEPT
                                    !.results = Append(@, StationResult(station, "error"))])
                /\ UNCHANGED <<stores, stores_seq>>
           ELSE IF StateTooLong(station.state)
           THEN \* value too long for type character varying(2)
                /\ discover' =
                     NextStation([discover EXCEPT
                                    !.results = Append(@, StationResult(station, "error"))])
                /\ stores_seq' = stores_seq + 1
                /\ UNCHANGED stores
           ELSE /\ discover' =
                     NextStation([discover EXCEPT
                                    !.added = @ + 1,
                                    !.results = Append(@, StationResult(station, "added"))])
                /\ stores_seq' = stores_seq + 1
                /\ stores' = stores \cup {ImportedStore(stores_seq + 1, station)}
    /\ UNCHANGED <<energy_drinks, drinks_seq, store_inventory, inventory_seq, now, nscans, scan,
                   nearby, otherVars, env, geocode, manage, autocomplete, search, batch>>

DiscoverReturn ==
    /\ discover.pc = "done"
    /\ discover' = IdleDiscover
    /\ UNCHANGED <<dbVars, nscans, scan, nearby, otherVars, env, geocode, manage, autocomplete, search, batch>>

\* requests of the discover endpoint and replies of the Overpass service
DiscoverBodies ==
    {DiscoverBody(latitude, longitude, Undefined, autoImport) :
        latitude \in {Undefined, Num(0), Num(1)},
        longitude \in {Undefined, Num(1)},
        autoImport \in {Undefined, Bool(TRUE)}}

Reno == Text(<<"Reno">>)
NV == Text(<<"N", "V">>)

\* a station, the same address in other letter case, a station without a
\* state tag, and an element without a name
SampleElements ==
    {Element(Num(1), Num(1), Text(<<"Shell">>), Undefined,
             Text(<<"1">>), Text(Words(<<"Main", "St">>)), Reno, NV, Text(<<"89501">>)),
     Element(Num(1), Num(2), Text(<<"Chevron">>), Undefined,
             Text(<<"1">>), Text(Words(<<"MAIN", "ST">>)), Text(<<"RENO">>), NV, Undefined),
     Element(Num(2), Num(2), Text(<<"Arco">>), Undefined,
             Text(<<"2">>), Text(Words(<<"Main", "St">>)), Reno, Undefined, Undefined),
     Element(Num(2), Num(1), Undefined, Undefined,
             Undefined, Undefined, Undefined, Undefined, Undefined)}

ElementLists == UNION {[1..n -> SampleElements] : n \in 0..MaxElements}

OverpassOutcomes == {OverpassFailure} \cup {OverpassElements(l) : l \in ElementLists}

\* a store imported earlier, at the address of the first two sample elements
KnownStation ==
    GasStation(<<"Shell">>, Words(<<"1", "main", "st">>), <<"Reno">>, <<"N", "V">>,
               <<"89501">>, 1, 1)

(***************************************************************************)
(* Batch geocoding: batchGeocodeAddresses of src/src/lib/geocode.ts and    *)
(* the geocode-stores script of src/unnamed/part_007.                      *)
(* The log holds, in order, a "request" for every request sent to the      *)
(* provider and a "delay" for every timeout the batch waited for, each     *)
(* with the round it belongs to.                                           *)
(***************************************************************************)
\* geocode.ts line 115: the default delay of batchGeocodeAddresses, ms
LibraryDelay == 1000
\* part_007 line 113: the delay of the script, ms
ScriptDelay == 600

BatchEvent(event, round) == [event |-> event, round |-> round]

IdleBatch ==
    [kind |-> "none", pc |-> "idle", forceAll |-> FALSE, dryRun |-> FALSE, delayMs |-> 0,
     items |-> <<>>, i |-> 0, queryAddress |-> <<>>, result |-> Null, log |-> <<>>,
     results |-> <<>>, successCount |-> 0, failCount |-> 0]

\* ORDER BY id
RECURSIVE OrderById(_)
OrderById(rows) ==
    IF rows = {} THEN <<>>
    ELSE LET first == CHOOSE r \in rows : \A o \in rows : r.id <= o.id
         IN  <<first>> \o OrderById(rows \ {first})

\* `latitude IS NULL OR longitude IS NULL`: both columns are NOT NULL
\* (schema lines 14-15), so no row satisfies it
MissingCoordinates(store) == FALSE

\* part_007 lines 40-49: the stores to geocode
StoresToGeocode(forceAll) ==
    OrderById({s \in stores : forceAll \/ MissingCoordinates(s)})

\* part_007 lines 78-84
StoreAddress(store) ==
    AddressComponents(Text(store.address), Text(store.city), Text(store.state),
                      Text(store.zip_code), US)

\* the address the batch geocodes in its i-th round
BatchAddress(b) ==
    IF b.kind = "script" THEN StoreAddress(b.items[b.i]) ELSE b.items[b.i]

\* geocode.ts lines 113-119
BatchGeocodeAddresses(addresses) ==
    /\ batch.pc = "idle"
    /\ batch' = [IdleBatch EXCEPT !.kind = "library", !.pc = "loop", !.delayMs = LibraryDelay,
                                  !.items = addresses, !.i = 1]
    /\ UNCHANGED <<dbVars, nscans, scan, nearby, otherVars, env, geocode, manage, discover, autocomplete, search>>

\* part_007 lines 34-65
GeocodeStores(forceAll, dryRun) ==
    /\ batch.pc = "idle"
    /\ batch' = [IdleBatch EXCEPT !.kind = "script",
                                  !.pc = IF StoresToGeocode(forceAll) = <<>> THEN "done" ELSE "loop",
                                  !.forceAll = forceAll, !.dryRun = dryRun,
                                  !.delayMs = ScriptDelay,
                                  !.items = StoresToGeocode(forceAll), !.i = 1]
    /\ UNCHANGED <<dbVars, nscans, scan, nearby, otherVars, env, geocode, manage, discover, autocomplete, search>>

\* a catch that records nothing for the failed address
BatchFailed_NoEntry(b) ==
    [b EXCEPT !.pc = "loop", !.i = @ + 1,
              !.failCount = IF b.kind = "script" THEN @ + 1 ELSE @]

\* the catch of the round: geocode.ts lines 128-131, part_007 lines 115-118
BatchFailed(b) ==
    [b EXCEPT !.pc = "loop", !.i = @ + 1,
              !.results = IF b.kind = "library" THEN Append(@, Null) ELSE @,
              !.failCount = IF b.kind = "script" THEN @ + 1 ELSE @]

\* the round succeeded: geocode.ts lines 122-127, part_007 lines 108-114;
\* the batch waits unless the round was the last
BatchSucceeded(b, result) ==
    [b EXCEPT !.pc = IF b.i < Len(b.items) THEN "delay" ELSE "loop",
              !.i = IF b.i < Len(b.items) THEN @ ELSE @ + 1,
              !.results = IF b.kind = "library" THEN Append(@, result) ELSE @,
              !.successCount = IF b.kind = "script" THEN @ + 1 ELSE @]

\* the head of a round up to the request to the provider:
\* geocode.ts lines 119-121 and 41-75, part_007 lines 65-87
BatchRound ==
    /\ batch.pc = "loop"
    /\ batch' =
         IF batch.i > Len(batch.items) THEN [batch EXCEPT !.pc = "done"]
         ELSE IF /\ batch.kind = "script"
                 /\ ~batch.forceAll
                 /\ Truthy(Num(batch.items[batch.i].latitude))
                 /\ Truthy(Num(batch.items[batch.i].longitude))
         THEN [batch EXCEPT !.i = @ + 1]
         ELSE IF ~BeforeFetch(BatchAddress(batch)).ok THEN BatchFailed(batch)
         ELSE [batch EXCEPT !.pc = "fetch",
                            !.queryAddress = BeforeFetch(BatchAddress(batch)).value,
                            !.log = Append(@, BatchEvent("request", batch.i))]
    /\ UNCHANGED <<dbVars, nscans, scan, nearby, otherVars, env, geocode, manage, discover, autocomplete, search>>

\* the provider replies, and the script updates the store whatever its mode
BatchSettle_AlwaysUpdate(outcome) ==
    /\ batch.pc = "fetch"
    /\ LET settled == AfterFetch(batch.queryAddress, outcome)
       IN  batch' =
             IF ~settled.ok THEN BatchFailed(batch)
             ELSE IF batch.kind = "script"
             THEN [batch EXCEPT !.pc = "update", !.result = settled.value]
             ELSE BatchSucceeded(batch, settled.value)
    /\ UNCHANGED <<dbVars, nscans, scan, nearby, otherVars, env, geocode, manage, discover, autocomplete, search>>

\* the provider replies: geocode.ts lines 77-102 and 122-131, part_007 lines 87-94
BatchSettle(outcome) ==
    /\ batch.pc = "fetch"
    /\ LET settled == AfterFetch(batch.queryAddress, outcome)
       IN  batch' =
             IF ~settled.ok THEN BatchFailed(batch)
             ELSE IF batch.kind = "script" /\ ~batch.dryRun
             THEN [batch EXCEPT !.pc = "update", !.result = settled.value]
             ELSE BatchSucceeded(batch, settled.value)
    /\ UNCHANGED <<dbVars, nscans, scan, nearby, otherVars, env, geocode, manage, discover, autocomplete, search>>

\* part_007 lines 95-101: UPDATE stores SET latitude, longitude WHERE id;
\* the BEFORE UPDATE trigger rebuilds the location
UpdateCoordinates(rows, id, latitude, longitude) ==
    {IF s.id = id
     THEN update_store_location([s EXCEPT !.latitude = latitude, !.longitude = longitude])
     ELSE s : s \in rows}

BatchUpdate ==
    /\ batch.pc = "update"
    /\ stores' = UpdateCoordinates(stores, batch.items[batch.i].id,
                                   batch.result.latitude.n, batch.result.longitude.n)
    /\ batch' = BatchSucceeded([batch EXCEPT !.result = Null], batch.result)
    /\ UNCHANGED <<stores_seq, energy_drinks, drinks_seq, store_inventory, inventory_seq, now,
                   nscans, scan, nearby, otherVars, env, geocode, manage, discover, autocomplete, search>>

\* geocode.ts line 126, part_007 line 113: the timeout fires
BatchDelayElapsed ==
    /\ batch.pc = "delay"
    /\ batch' = [batch EXCEPT !.pc = "loop", !.i = @ + 1, !.log = Append(@, BatchEvent("delay", batch.i))]
    /\ UNCHANGED <<dbVars, nscans, scan, nearby, otherVars, env, geocode, manage, discover, autocomplete, search>>

BatchReturn ==
    /\ batch.pc = "done"
    /\ batch' = IdleBatch
    /\ UNCHANGED <<dbVars, nscans, scan, nearby, otherVars, env, geocode, manage, discover, autocomplete, search>>

\* the addresses a caller hands to batchGeocodeAddresses
SampleAddresses ==
    {Text(Words(<<"1", "Elm">>)), Text(<<" ">>),
     AddressComponents(Undefined, Reno, NV, Undefined, Undefined)}

AddressLists == UNION {[1..n -> SampleAddresses] : n \in 0..MaxAddresses}

\* the replies of the provider to the requests of a batch
BatchOutcomes ==
    {NetworkError, Candidates(<<>>)}
    \cup {Candidates(<<c>>) : c \in SampleCandidates}

(***************************************************************************)
(* The product autocomplete endpoint and the store search endpoint.        *)
(*   src/unnamed/part_003 lines 345-455, src/src/app/api/search/route.ts   *)
(* Brands and flavors are matched and ordered by their characters.         *)
(***************************************************************************)
\* the characters of the brands and flavors of the model
Spellings ==
    << <<"Red Bull", <<"R", "e", "d", " ", "B", "u", "l", "l">> >>,
       <<"Monster", <<"M", "o", "n", "s", "t", "e", "r">> >>,
       <<"Original", <<"O", "r", "i", "g", "i", "n", "a", "l">> >>,
       <<"Ultra", <<"U", "l", "t", "r", "a">> >> >>

Spell(s) == Spellings[CHOOSE i \in 1..Len(Spellings) : Spellings[i][1] = s][2]

\* the order of the characters in the collation of the database
Collation ==
    <<" ", "B", "M", "O", "R", "U", "a", "d", "e", "g", "i", "l", "n", "o", "r", "s", "t", "u">>

CharRank(ch) == CHOOSE i \in 1..Len(Collation) : Collation[i] = ch

\* a < b for two strings
RECURSIVE StringLess(_, _)
StringLess(a, b) ==
    IF b = <<>> THEN FALSE
    ELSE IF a = <<>> THEN TRUE
    ELSE IF Head(a) = Head(b) THEN StringLess(Tail(a), Tail(b))
    ELSE CharRank(Head(a)) < CharRank(Head(b))

\* ORDER BY brand ASC, flavor ASC puts row a before row b; rows that agree
\* on both come in the order the database happens to produce, here by id,
\* ascending or descending
ComesFirst(a, b, ties) ==
    \/ StringLess(Spell(a.brand), Spell(b.brand))
    \/ /\ a.brand = b.brand
       /\ \/ StringLess(Spell(a.flavor), Spell(b.flavor))
          \/ /\ a.flavor = b.flavor
             /\ IF ties = "ascending" THEN a.id < b.id ELSE a.id > b.id

RECURSIVE OrderedByBrandFlavor(_, _)
OrderedByBrandFlavor(rows, ties) ==
    IF rows = {} THEN <<>>
    ELSE LET first == CHOOSE r \in rows : \A o \in rows \ {r} : ComesFirst(r, o, ties)
         IN  <<first>> \o OrderedByBrandFlavor(rows \ {first}, ties)

\* line 436
Take == 20

TakeRows_All(rows) == rows

TakeRows(rows) == SubSeq(rows, 1, IF Len(rows) < Take THEN Len(rows) ELSE Take)

\* String.prototype.split(/\s+/) of a trimmed string
RECURSIVE SplitBlanks(_)
SplitBlanks(c) ==
    IF \A i \in 1..Len(c) : c[i] # " " THEN <<c>>
    ELSE LET k == CHOOSE i \in 1..Len(c) : c[i] = " " /\ \A j \in 1..(i - 1) : c[j] # " "
         IN  <<SubSeq(c, 1, k - 1)>> \o SplitBlanks(TrimStart(SubSeq(c, k + 1, Len(c))))

\* { contains: text, mode: 'insensitive' }
ContainsInsensitive(column, text) == Includes(ToLowerCase(Spell(column)), ToLowerCase(text))

\* words.slice(1).join(' ')
RECURSIVE JoinWords(_)
JoinWords(words) ==
    IF words = <<>> THEN <<>>
    ELSE IF Len(words) = 1 THEN words[1]
    ELSE words[1] \o <<" ">> \o JoinWords(Tail(words))

\* lines 360-423: whereCondition
Matches(row, query) ==
    LET words == SplitBlanks(Trim(query))
    IN  IF Len(words) = 1
        THEN \/ ContainsInsensitive(row.brand, words[1])
             \/ ContainsInsensitive(row.flavor, words[1])
        ELSE \/ /\ ContainsInsensitive(row.brand, words[1])
                /\ ContainsInsensitive(row.flavor, JoinWords(Tail(words)))
             \/ ContainsInsensitive(row.brand, query)
             \/ ContainsInsensitive(row.flavor, query)

\* lines 428-435: select
Selected(row) ==
    [id |-> row.id, brand |-> row.brand, flavor |-> row.flavor, size_ml |-> row.size_ml,
     caffeine_mg |-> row.caffeine_mg]

\* lines 426-445: prisma.energy_drinks.findMany
FindMany(query, ties) ==
    LET rows == TakeRows(OrderedByBrandFlavor({d \in energy_drinks : Matches(d, query)}, ties))
    IN  [i \in 1..Len(rows) |-> Selected(rows[i])]

\* the JSON of a response: `success` is Undefined where the body has no such field
AutocompleteResponse(status, success, drinks) ==
    [status |-> status, success |-> success, drinks |-> drinks]

IdleAutocomplete ==
    [q |-> Null, queries |-> 0, response |-> AutocompleteResponse(0, Undefined, <<>>)]

\* lines 350-455; `ok` is FALSE when the query fails
AutocompleteGet(q, ok, ties) ==
    /\ autocomplete' =
         LET query == Or(q, Text(<<>>)).c
         IN  IF Len(query) < 1
             THEN [q |-> q, queries |-> 0,
                   response |-> AutocompleteResponse(200, Bool(TRUE), <<>>)]
             ELSE IF ~ok
             THEN [q |-> q, queries |-> 1,
                   response |-> AutocompleteResponse(500, Undefined, <<>>)]
             ELSE [q |-> q, queries |-> 1,
                   response |-> AutocompleteResponse(200, Bool(TRUE), FindMany(query, ties))]
    /\ UNCHANGED <<dbVars, nscans, scan, nearby, otherVars, env, geocode, manage, discover, search, batch>>

\* the parameters of a store search
SearchParams(latitude, longitude, radius) ==
    [latitude |-> latitude, longitude |-> longitude, radius |-> radius]

SearchResponse(status, success, results) ==
    [status |-> status, success |-> success, results |-> results]

IdleSearch == [params |-> Null, response |-> SearchResponse(0, Undefined, <<>>)]

\* search/route.ts lines 5-45: the query is not implemented, the results are empty
SearchGet(params) ==
    /\ search' =
         LET latitude == ParseParam(params.latitude, <<"0">>)
             longitude == ParseParam(params.longitude, <<"0">>)
         IN  IF Falsy(latitude) \/ Falsy(longitude)
             THEN [params |-> params, response |-> SearchResponse(400, Undefined, <<>>)]
             ELSE [params |-> params, response |-> SearchResponse(200, Undefined, <<>>)]
    /\ UNCHANGED <<dbVars, nscans, scan, nearby, otherVars, env, geocode, manage, discover, autocomplete, batch>>

\* a catalog of n products, no two with the same (brand, flavor, size)
CatalogRow(k) ==
    DrinkRow(k, IF k % 2 = 1 THEN "Monster" ELSE "Red Bull",
             IF (k \div 2) % 2 = 0 THEN "Original" ELSE "Ultra",
             250 + k, Null, Null)

Catalog(n) == {CatalogRow(k) : k \in 1..n}

\* queries of the autocomplete endpoint
AutocompleteQueries ==
    {Null, Text(<<>>), Text(<<" ">>), Text(<<"o">>), Text(<<"R", "e", "d">>),
     Text(<<"m", "o", "n", "s", "t", "e", "r", " ", "u", "l", "t", "r", "a">>),
     Text(<<"r", "e", "d", " ", "b", "u", "l", "l">>)}

SearchRequests ==
    {SearchParams(latitude, longitude, Null) :
        latitude \in {Null, Text(<<"0">>), Text(<<"1">>), Text(<<"x">>)},
        longitude \in {Null, Text(<<"2">>)}}

(***************************************************************************)
(* The add-inventory page: src/src/app/add/page.tsx.                       *)
(* The callback handed to the barcode reader is created by the call of     *)
(* startScanning, so it reads the state of the render in which the user    *)
(* pressed the button.                                                     *)
(***************************************************************************)
\* lines 11-17: an item of the list; its barcode is the one of drink.barcode
ScannedItem(barcode, status) == [barcode |-> barcode, status |-> status]

\* lines 194-198: the body of a scan request
PageRequest(barcode, store_id) == [barcode |-> barcode, store_id |-> store_id]

\* lines 23-31: the state of the first render
IdleAddPage ==
    [selectedStoreId |-> Null, scanner |-> "off", scannedItems |-> <<>>,
     closure |-> [selectedStoreId |-> Null, scannedItems |-> <<>>],
     requests |-> <<>>, pending |-> {}]

\* lines 94-96 and 297: the first store is selected, or the user selects one
AddSelectStore(id) ==
    /\ addpage.selectedStoreId # Num(id)
    /\ addpage' = [addpage EXCEPT !.selectedStoreId = Num(id)]
    /\ UNCHANGED <<dbVars, nscans, scan, nearby, svcVars, drinksearch, scanpage, ingest, concurrent>>

\* lines 109-116: the user presses Start Scanning; the call keeps the state
\* of this render
AddStartScanning ==
    /\ addpage.scanner = "off"
    /\ Truthy(addpage.selectedStoreId)
    /\ addpage' = [addpage EXCEPT !.scanner = "starting",
                                  !.closure = [selectedStoreId |-> addpage.selectedStoreId,
                                               scannedItems |-> addpage.scannedItems]]
    /\ UNCHANGED <<dbVars, nscans, scan, nearby, svcVars, drinksearch, scanpage, ingest, concurrent>>

\* lines 116-180: the camera is granted and decoding starts, or the catch
\* turns scanning off
AddCameraSettle(ok) ==
    /\ addpage.scanner = "starting"
    /\ addpage' = [addpage EXCEPT !.scanner = IF ok THEN "on" ELSE "off"]
    /\ UNCHANGED <<dbVars, nscans, scan, nearby, svcVars, drinksearch, scanpage, ingest, concurrent>>

\* lines 146-148: scannedItems.some(...) of the callback
AlreadyScanned(items, barcode) == \E i \in 1..Len(items) : items[i].barcode = barcode

\* what the callback reads: the list of the render that started scanning
CallbackItems(page) == page.closure.scannedItems

\* what handleBarcodeScanned reads: the store of the render that started scanning
CallbackStore(page) == page.closure.selectedStoreId

\* lines 140-153 and 188-199: the reader reports a barcode and the callback
\* sends the scan request unless it finds the barcode in its list
AddDetect(barcode) ==
    /\ addpage.scanner = "on"
    /\ Len(addpage.requests) < MaxRequests
    /\ addpage' =
         IF AlreadyScanned(CallbackItems(addpage), barcode) THEN addpage
         ELSE [addpage EXCEPT
                 !.requests = Append(@, PageRequest(barcode, CallbackStore(addpage))),
                 !.pending = @ \cup {Len(addpage.requests) + 1}]
    /\ UNCHANGED <<dbVars, nscans, scan, nearby, svcVars, drinksearch, scanpage, ingest, concurrent>>

\* lines 201-246: the answer to request k arrives, or its fetch fails, and
\* an item is put in front of the list
AddResponse(k, ok) ==
    /\ k \in addpage.pending
    /\ addpage' = [addpage EXCEPT
                     !.pending = @ \ {k},
                     !.scannedItems = <<ScannedItem(addpage.requests[k].barcode,
                                                    IF ok THEN "success" ELSE "error")>> \o @]
    /\ UNCHANGED <<dbVars, nscans, scan, nearby, svcVars, drinksearch, scanpage, ingest, concurrent>>

\* lines 181-186
AddStopScanning ==
    /\ addpage.scanner = "on"
    /\ addpage' = [addpage EXCEPT !.scanner = "off"]
    /\ UNCHANGED <<dbVars, nscans, scan, nearby, svcVars, drinksearch, scanpage, ingest, concurrent>>

\* lines 249-251: prev.filter((_, i) => i !== index)
RemoveAt(items, index) ==
    [i \in 1..(Len(items) - 1) |-> IF i < index THEN items[i] ELSE items[i + 1]]

AddRemoveItem(index) ==
    /\ index \in 1..Len(addpage.scannedItems)
    /\ addpage' = [addpage EXCEPT !.scannedItems = RemoveAt(@, index)]
    /\ UNCHANGED <<dbVars, nscans, scan, nearby, svcVars, drinksearch, scanpage, ingest, concurrent>>

\* the stores of the select box and the barcodes in front of the camera
PageStores == {1, 2}
PageBarcodes == {"b1", "b2"}

(***************************************************************************)
(* The search-as-you-type component DrinkSearch: src/unnamed/part_001.     *)
(* Texts are sequences of characters; a list of drinks is kept with the    *)
(* query of the request that brought it.                                   *)
(***************************************************************************)
\* `${drink.brand} ${drink.flavor}` of the drinks of the catalog
DrinkNames == {<<"m", "o", "n">>, <<"m", "a", "x">>}

\* the drinks the endpoint finds for a query
DrinksFor(q) == {name \in DrinkNames : Includes(name, q)}

\* the value of `drinks` after the answer to the request for q
DrinkList(q, items) == [answers |-> q, items |-> items]

NoTimer == [set |-> FALSE, query |-> <<>>]
Timer(q) == [set |-> TRUE, query |-> q]

\* lines 17-21 and 46: the state of the first render, whose effect starts a timer
IdleDrinkSearch ==
    [open |-> FALSE, query |-> <<>>, drinks |-> DrinkList(<<>>, {}), loading |-> FALSE,
     selectedDrink |-> Null, timer |-> Timer(<<>>), inflight |-> {}, fetches |-> 0,
     lastInput |-> "none"]

\* line 65 and lines 46-47: the user edits the text; the effect of the new
\* query clears the timer of the old one and starts its own
DrinkSearchType(q) ==
    /\ q # drinksearch.query
    /\ drinksearch' = [drinksearch EXCEPT !.query = q, !.timer = Timer(q),
                                          !.lastInput = "typed"]
    /\ UNCHANGED <<dbVars, nscans, scan, nearby, svcVars, addpage, scanpage, ingest, concurrent>>

\* lines 24-35: 300 ms have passed and fetchDrinks runs with the query of its effect
DrinkSearchTimer ==
    /\ drinksearch.timer.set
    /\ LET q == drinksearch.timer.query
       IN  IF Len(q) < 1
           THEN drinksearch' = [drinksearch EXCEPT !.timer = NoTimer,
                                                   !.drinks = DrinkList(<<>>, {}),
                                                   !.open = FALSE]
           ELSE /\ drinksearch.fetches < MaxFetches
                /\ drinksearch' =
                     [drinksearch EXCEPT !.timer = NoTimer, !.loading = TRUE, !.open = TRUE,
                                         !.fetches = @ + 1,
                                         !.inflight = @ \cup {[id |-> drinksearch.fetches + 1,
                                                               query |-> q]}]
    /\ UNCHANGED <<dbVars, nscans, scan, nearby, svcVars, addpage, scanpage, ingest, concurrent>>

\* lines 36-43: the answer to a request arrives, or the request fails
DrinkSearchSettle(request, ok) ==
    /\ request \in drinksearch.inflight
    /\ drinksearch' =
         [drinksearch EXCEPT !.inflight = @ \ {request},
                             !.drinks = DrinkList(request.query,
                                                  IF ok THEN DrinksFor(request.query) ELSE {}),
                             !.loading = FALSE]
    /\ UNCHANGED <<dbVars, nscans, scan, nearby, svcVars, addpage, scanpage, ingest, concurrent>>

\* lines 50-54: the user picks a drink of the list shown; a changed query
\* runs the effect again
DrinkSearchSelect(name) ==
    /\ drinksearch.open
    /\ ~drinksearch.loading
    /\ name \in drinksearch.drinks.items
    /\ drinksearch' =
         [drinksearch EXCEPT !.selectedDrink = Text(name), !.query = name, !.open = FALSE,
                             !.timer = IF name # drinksearch.query THEN Timer(name) ELSE @,
                             !.lastInput = "selected"]
    /\ UNCHANGED <<dbVars, nscans, scan, nearby, svcVars, addpage, scanpage, ingest, concurrent>>

\* what the user types
TypedQueries == {<<>>, <<"m">>, <<"m", "o">>, <<"m", "o", "n">>}

(***************************************************************************)
(* The scan page: src/src/app/scan/page.tsx.                               *)
(* A lookup is the run of lookupDrink for one detected barcode: it waits   *)
(* for the position, then for the scan endpoint.                           *)
(***************************************************************************)
Lookup(id, barcode, pc) == [id |-> id, barcode |-> barcode, pc |-> pc]

\* lines 9-13: the state of the first render
IdleScanPage ==
    [isScanning |-> FALSE, scannedDrink |-> Null, error |-> <<>>, isLoading |-> FALSE,
     reader |-> "off", lookups |-> {}, started |-> 0]

\* lines 25-27: the head of startScanning, up to the request for the camera
StartScanning(page) ==
    [page EXCEPT !.error = <<>>, !.scannedDrink = Null, !.isLoading = FALSE,
                 !.reader = "starting"]

\* line 165: the Start Scanning button is shown
StartShown(page) == ~page.isScanning /\ page.scannedDrink = Null /\ page.error = <<>>

\* lines 24-28 and 165-168: the user presses Start Scanning
PageStartScanning ==
    /\ StartShown(scanpage)
    /\ scanpage.reader = "off"
    /\ scanpage' = StartScanning(scanpage)
    /\ UNCHANGED <<dbVars, nscans, scan, nearby, svcVars, addpage, drinksearch, ingest, concurrent>>

\* lines 150-154: Try again and Scan Another Drink, shown with the error and
\* with the drink
PageScanAgain ==
    /\ scanpage.error # <<>> \/ scanpage.scannedDrink # Null
    /\ scanpage.reader = "off"
    /\ scanpage' = StartScanning(scanpage)
    /\ UNCHANGED <<dbVars, nscans, scan, nearby, svcVars, addpage, drinksearch, ingest, concurrent>>

\* lines 29-90: the camera is granted and decoding starts, or the catch
\* shows an error
PageCameraSettle(ok) ==
    /\ scanpage.reader = "starting"
    /\ scanpage' =
         IF ok THEN [scanpage EXCEPT !.reader = "on", !.isScanning = TRUE]
         ELSE [scanpage EXCEPT !.reader = "off", !.isScanning = FALSE,
                               !.error = <<"camera">>]
    /\ UNCHANGED <<dbVars, nscans, scan, nearby, svcVars, addpage, drinksearch, ingest, concurrent>>

\* lines 92-97
StopScanning(page) == [page EXCEPT !.reader = "off", !.isScanning = FALSE]

\* the Stop button
PageStopScanning ==
    /\ scanpage.isScanning
    /\ scanpage' = StopScanning(scanpage)
    /\ UNCHANGED <<dbVars, nscans, scan, nearby, svcVars, addpage, drinksearch, ingest, concurrent>>

\* lines 58-68 and 99-115: the reader reports a barcode; the callback stops
\* the reader and lookupDrink runs up to its wait for the position
PageDetect(barcode) ==
    /\ scanpage.reader = "on"
    /\ scanpage.started < MaxLookups
    /\ scanpage' =
         [StopScanning(scanpage) EXCEPT
            !.isLoading = TRUE, !.error = <<>>, !.started = @ + 1,
            !.lookups = @ \cup {Lookup(scanpage.started + 1, barcode, "position")}]
    /\ UNCHANGED <<dbVars, nscans, scan, nearby, svcVars, addpage, drinksearch, ingest, concurrent>>

\* lines 107-131: the position arrives or is refused, and the scan request is sent
PagePosition(lookup) ==
    /\ lookup \in scanpage.lookups
    /\ lookup.pc = "position"
    /\ scanpage' = [scanpage EXCEPT
                      !.lookups = (@ \ {lookup}) \cup {[lookup EXCEPT !.pc = "fetch"]}]
    /\ UNCHANGED <<dbVars, nscans, scan, nearby, svcVars, addpage, drinksearch, ingest, concurrent>>

\* lines 133-146: the endpoint answers with the drink or with an error, or
\* the request fails; the finally turns the indicator off
PageAnswer(lookup, outcome) ==
    /\ lookup \in scanpage.lookups
    /\ lookup.pc = "fetch"
    /\ scanpage' =
         [scanpage EXCEPT
            !.lookups = @ \ {lookup},
            !.scannedDrink = IF outcome = "drink" THEN Str(lookup.barcode) ELSE @,
            !.error = IF outcome = "drink" THEN @
                      ELSE IF outcome = "error" THEN <<"not found">>
                      ELSE <<"failed">>,
            !.isLoading = FALSE]
    /\ UNCHANGED <<dbVars, nscans, scan, nearby, svcVars, addpage, drinksearch, ingest, concurrent>>

\* the answers to a scan request: success with data, an error body, a failed fetch
PageOutcomes == {"drink", "error", "failed"}

(***************************************************************************)
(* The ingest script: src/unnamed/part_006.                                *)
(* A UPC is a text, the sequence of its characters.                        *)
(***************************************************************************)
\* lines 14-18: an entry of seed-drinks.json
DrinkData(brand, flavor, upc) == [brand |-> brand, flavor |-> flavor, upc |-> upc]

\* line 36: upc.replace(/^0+/, '')
RECURSIVE StripLeadingZeros(_)
StripLeadingZeros(c) ==
    IF c # <<>> /\ Head(c) = "0" THEN StripLeadingZeros(Tail(c)) ELSE c

\* line 36: the barcode the script stores for a UPC
NormalizedUpc(upc) == IF Truthy(upc) THEN Text(StripLeadingZeros(upc.c)) ELSE Null

\* the flavors of the seed file that carry '12oz' or '12-pack'
Marked12oz(flavor) == flavor \in {"Lemon 12oz"}

\* lines 40-54: the size by brand
SeedSize(drink) ==
    IF drink.brand = "Red Bull" THEN 250
    ELSE IF drink.brand \in {"Celsius", "Alani Nu"} THEN 355
    ELSE IF Marked12oz(drink.flavor) THEN 355
    ELSE 473

\* lines 41-65: the caffeine by brand
SeedCaffeine(drink) ==
    IF drink.brand \in {"Monster", "Reign", "Bang"} THEN 300
    ELSE IF drink.brand = "Red Bull" THEN 80
    ELSE IF drink.brand \in {"Celsius", "Alani Nu"} THEN 200
    ELSE 300

IdleIngest ==
    [pc |-> "idle", drink |-> DrinkData("", "", Null), barcode |-> Null, existing |-> {},
     count |-> 0, outcome |-> "none", ingested |-> {}]

\* lines 68-83: SELECT by barcode, then SELECT by brand, flavor and size
ExistingDrink(drink, barcode) ==
    LET byBarcode == IF Truthy(barcode)
                     THEN {d \in energy_drinks : d.barcode = barcode}
                     ELSE {}
    IN  IF byBarcode # {} THEN byBarcode
        ELSE {d \in energy_drinks :
                 /\ d.brand = drink.brand
                 /\ d.flavor = drink.flavor
                 /\ d.size_ml = SeedSize(drink)}

\* lines 35-83: the head of an iteration, up to the result of the lookups
IngestLookup(drink) ==
    /\ ingest.pc = "idle"
    /\ ingest.count < MaxSeed
    /\ ingest' = [ingest EXCEPT !.pc = "write", !.drink = drink,
                                !.barcode = NormalizedUpc(drink.upc),
                                !.existing = ExistingDrink(drink, NormalizedUpc(drink.upc)),
                                !.count = @ + 1]
    /\ UNCHANGED <<dbVars, nscans, scan, nearby, svcVars, addpage, drinksearch, scanpage, concurrent>>

\* the iteration ends with an outcome; a product is ingested when the script
\* has inserted it or given it the barcode
IngestEnd(outcome) ==
    [ingest EXCEPT !.pc = "idle", !.outcome = outcome,
                   !.ingested = IF outcome \in {"inserted", "updated"}
                                THEN @ \cup {ingest.drink} ELSE @]

\* lines 85-126: UPDATE of the barcode, skip, or INSERT; error 23505 is a skip
IngestWrite ==
    /\ ingest.pc = "write"
    /\ IF ingest.existing # {}
       THEN \E existing \in ingest.existing :
               LET row == [existing EXCEPT !.barcode = ingest.barcode]
               IN  IF Falsy(existing.barcode) /\ Truthy(ingest.barcode)
                   THEN IF existing \notin energy_drinks \/ UniqueViolation(energy_drinks, row)
                        THEN /\ ingest' = IngestEnd("skipped")
                             /\ UNCHANGED <<energy_drinks, drinks_seq>>
                        ELSE /\ ingest' = IngestEnd("updated")
                             /\ energy_drinks' = (energy_drinks \ {existing}) \cup {row}
                             /\ UNCHANGED drinks_seq
                   ELSE /\ ingest' = IngestEnd("skipped")
                        /\ UNCHANGED <<energy_drinks, drinks_seq>>
       ELSE LET row == DrinkRow(drinks_seq + 1, ingest.drink.brand, ingest.drink.flavor,
                                SeedSize(ingest.drink), Num(SeedCaffeine(ingest.drink)),
                                ingest.barcode)
            IN  /\ drinks_seq' = drinks_seq + 1
                /\ IF UniqueViolation(energy_drinks, row)
                   THEN /\ ingest' = IngestEnd("skipped")
                        /\ UNCHANGED energy_drinks
                   ELSE /\ ingest' = IngestEnd("inserted")
                        /\ energy_drinks' = energy_drinks \cup {row}
    /\ UNCHANGED <<stores, stores_seq, store_inventory, inventory_seq, now, nscans, scan, nearby,
                   svcVars, addpage, drinksearch, scanpage, concurrent>>

\* the UPCs of the seed file: with and without leading zeros
SeedUpcs == {Text(<<"0", "1", "2">>), Text(<<"1", "2">>), Text(<<"7">>)}

SeedDrinks ==
    {DrinkData(brand, "Original", upc) :
        brand \in {"Red Bull", "Monster"}, upc \in SeedUpcs \cup {Null}}

(***************************************************************************)
(* A second request of the discover endpoint, served while the first one   *)
(* runs: the handlers share the stores table and nothing else.             *)
(* src/src/app/api/stores/nearby/route.ts lines 139-250.                   *)
(***************************************************************************)
\* lines 139-157: validation, then the client starts its wait
ConcurrentReceive(body) ==
    /\ concurrent.pc = "idle"
    /\ concurrent' =
         IF InvalidLocation(body)
         THEN [concurrent EXCEPT !.pc = "done", !.body = body,
                                 !.response = DiscoverResponse(400, FALSE, Null)]
         ELSE [concurrent EXCEPT !.pc = "wait", !.body = body]
    /\ UNCHANGED <<dbVars, nscans, scan, nearby, svcVars, addpage, drinksearch, scanpage, ingest>>

\* overpass.ts lines 132-133 and 71: the timeout fires and the request is sent
ConcurrentFetch ==
    /\ concurrent.pc = "wait"
    /\ concurrent' = [concurrent EXCEPT !.pc = "fetch", !.waited = PolitenessDelay,
                                        !.requests = @ + 1, !.overpass = "pending"]
    /\ UNCHANGED <<dbVars, nscans, scan, nearby, svcVars, addpage, drinksearch, scanpage, ingest>>

\* the service replies: lines 157-175 and 226-250, overpass.ts lines 79-119
ConcurrentSettle(outcome) ==
    /\ concurrent.pc = "fetch"
    /\ concurrent' =
         IF outcome.kind = "failure"
         THEN [concurrent EXCEPT !.pc = "done", !.overpass = "failed",
                                 !.response = DiscoverResponse(500, FALSE, Null)]
         ELSE LET found == Stations(outcome.elements)
                  d == [concurrent EXCEPT !.stations = found, !.overpass = "replied"]
              IN  IF AutoImport(concurrent.body)
                  THEN NextStation(d)
                  ELSE [d EXCEPT
                          !.pc = "done",
                          !.response =
                              DiscoverResponse(200, TRUE,
                                  DiscoverData(Len(found), 0, 0,
                                      [k \in 1..Len(found) |->
                                          StationResult(found[k], "skipped")]))]
    /\ UNCHANGED <<dbVars, nscans, scan, nearby, svcVars, addpage, drinksearch, scanpage, ingest>>

\* lines 179-191 and 210-213: the lookup of the station
ConcurrentCheck(ok) ==
    /\ concurrent.pc = "check"
    /\ LET station == concurrent.stations[concurrent.i]
           existing == SelectStoreByAddress(station.address, station.city)
       IN  concurrent' =
             IF ~ok
             THEN NextStation([concurrent EXCEPT
                                 !.results = Append(@, StationResult(station, "error"))])
             ELSE IF existing # {}
             THEN NextStation([concurrent EXCEPT
                                 !.skipped = @ + 1,
                                 !.results = Append(@, StationResult(station, "skipped"))])
             ELSE [concurrent EXCEPT !.pc = "insert"]
    /\ UNCHANGED <<dbVars, nscans, scan, nearby, svcVars, addpage, drinksearch, scanpage, ingest>>

\* lines 193-213: the INSERT of the station
ConcurrentInsert(ok) ==
    /\ concurrent.pc = "insert"
    /\ stores_seq < MaxStoreId
    /\ LET station == concurrent.stations[concurrent.i]
       IN  IF ~ok
           THEN /\ concurrent' =
                     NextStation([concurrent EXCEPT
                                    !.results = Append(@, StationResult(station, "error"))])
                /\ UNCHANGED <<stores, stores_seq>>
           ELSE IF StateTooLong(station.state)
           THEN /\ concurrent' =
                     NextStation([concurrent EXCEPT
                                    !.results = Append(@, StationResult(station, "error"))])
                /\ stores_seq' = stores_seq + 1
                /\ UNCHANGED stores
           ELSE /\ concurrent' =
                     NextStation([concurrent EXCEPT
                                    !.added = @ + 1,
                                    !.results = Append(@, StationResult(station, "added"))])
                /\ stores_seq' = stores_seq + 1
                /\ stores' = stores \cup {ImportedStore(stores_seq + 1, station)}
    /\ UNCHANGED <<energy_drinks, drinks_seq, store_inventory, inventory_seq, now, nscans, scan,
                   nearby, svcVars, addpage, drinksearch, scanpage, ingest>>

ConcurrentReturn ==
    /\ concurrent.pc = "done"
    /\ concurrent' = IdleDiscover
    /\ UNCHANGED <<dbVars, nscans, scan, nearby, svcVars, addpage, drinksearch, scanpage, ingest>>

(***************************************************************************)
(* Specifications.                                                         *)
(***************************************************************************)
InitDb ==
    /\ stores_seq = Cardinality(SampleStores)
    /\ energy_drinks = SampleDrinks
    /\ drinks_seq = Cardinality(SampleDrinks)
    /\ store_inventory \in {{}, SampleInventory}
    /\ inventory_seq = Cardinality(store_inventory)
    /\ now = 0

\* no request is in progress
InitHandlers ==
    /\ nscans = 0
    /\ scan = [r \in Handlers |-> IdleScan]
    /\ nearby = IdleNearby
    /\ geocode = IdleGeocode
    /\ manage = IdleManage
    /\ discover = IdleDiscover
    /\ autocomplete = IdleAutocomplete
    /\ search = IdleSearch
    /\ batch = IdleBatch
    /\ addpage = IdleAddPage
    /\ drinksearch = IdleDrinkSearch
    /\ scanpage = IdleScanPage
    /\ ingest = IdleIngest
    /\ concurrent = IdleDiscover

InitIdle ==
    /\ InitHandlers
    /\ env = ConfiguredEnv

\* concurrent scans over the installed database
Init ==
    /\ stores = SampleStores
    /\ InitDb
    /\ InitIdle

\* the k-th request is served by handler k
Next ==
    \/ \E body \in ConcurrentBodies : ScanReceive(nscans + 1, body)
    \/ \E r \in Handlers : ScanLookupDrink(r)
    \/ \E r \in Handlers : ScanResolveStore(r)
    \/ \E r \in Handlers : ScanUpsert(r)
    \/ Tick

Spec == Init /\ [][Next]_vars

\* scans of every shape, one at a time, over a database with or without stores
InitScans ==
    /\ stores \in {{}, SampleStores}
    /\ InitDb
    /\ InitIdle

NextScans ==
    \/ \E body \in ScanBodies : ScanReceive(1, body)
    \/ ScanLookupDrink(1)
    \/ ScanResolveStore(1)
    \/ ScanUpsert(1)
    \/ ScanReturn(1)

SpecScans == InitScans /\ [][NextScans]_vars

\* nearby queries over every set of stores
InitNearby ==
    /\ stores \in SUBSET SampleStores
    /\ InitDb
    /\ InitIdle

NextNearby ==
    \/ \E params \in NearbyRequests : NearbyReceive(params)
    \/ NearbyQuery
    \/ NearbyReturn

SpecNearby == InitNearby /\ [][NextNearby]_vars

\* geocode requests of both methods, with and without the provider's key
InitGeocode ==
    /\ stores = SampleStores
    /\ InitDb
    /\ InitHandlers
    /\ env \in {ConfiguredEnv, UnconfiguredEnv}

NextGeocode ==
    \/ \E req \in GeocodeRequests : GeocodeReceive(req)
    \/ \E outcome \in ProviderOutcomes : GeocodeSettle(outcome)
    \/ GeocodeReturn

SpecGeocode == InitGeocode /\ [][NextGeocode]_vars

\* catalog create, update and delete requests in any order
InitCatalog ==
    /\ stores = SampleStores
    /\ stores_seq = Cardinality(SampleStores)
    /\ energy_drinks = SampleDrinks
    /\ drinks_seq = Cardinality(SampleDrinks)
    /\ store_inventory = SampleInventory
    /\ inventory_seq = Cardinality(SampleInventory)
    /\ now = 0
    /\ InitIdle

NextCatalog ==
    \/ \E body \in CreateBodies : ManageCreate(body)
    \/ \E body \in UpdateBodies : ManageUpdate(body)
    \/ \E idParam \in DeleteParams : ManageDelete(idParam)

SpecCatalog == InitCatalog /\ [][NextCatalog]_vars

\* discovery runs, one at a time, over no store or one imported earlier
InitDiscover ==
    /\ stores \in {{}, {ImportedStore(1, KnownStation)}}
    /\ stores_seq = Cardinality(stores)
    /\ energy_drinks = SampleDrinks
    /\ drinks_seq = Cardinality(SampleDrinks)
    /\ store_inventory = {}
    /\ inventory_seq = 0
    /\ now = 0
    /\ InitIdle

NextDiscover ==
    \/ \E body \in DiscoverBodies : DiscoverReceive(body)
    \/ DiscoverFetch
    \/ \E outcome \in OverpassOutcomes : DiscoverSettle(outcome)
    \/ \E ok \in BOOLEAN : DiscoverCheck(ok)
    \/ \E ok \in BOOLEAN : DiscoverInsert(ok)
    \/ DiscoverReturn

SpecDiscover == InitDiscover /\ [][NextDiscover]_vars

\* a store of the seed data, at an address of no sample element
SeededStation ==
    GasStation(<<"Sinclair">>, Words(<<"3", "Main", "St">>), <<"Reno">>, <<"N", "V">>,
               <<"89501">>, 2, 1)

\* the replies of Overpass to the imports: distinct named stations
StationLists ==
    {l \in ElementLists :
        /\ \A i \in 1..Len(l) : HasCoordinatesAndName(l[i])
        /\ \A i, j \in 1..Len(l) : i < j => l[i] # l[j]}

\* auto-imports and forced runs of the geocode-stores script over the same
\* stores, one seeded store at first
InitStores ==
    /\ stores = {ImportedStore(1, SeededStation)}
    /\ stores_seq = Cardinality(stores)
    /\ energy_drinks = SampleDrinks
    /\ drinks_seq = Cardinality(SampleDrinks)
    /\ store_inventory = {}
    /\ inventory_seq = 0
    /\ now = 0
    /\ InitIdle

NextStores ==
    \/ DiscoverReceive(DiscoverBody(Num(1), Num(1), Undefined, Bool(TRUE)))
    \/ DiscoverFetch
    \/ \E l \in StationLists : DiscoverSettle(OverpassElements(l))
    \/ DiscoverCheck(TRUE)
    \/ DiscoverInsert(TRUE)
    \/ DiscoverReturn
    \/ GeocodeStores(TRUE, FALSE)
    \/ BatchRound
    \/ \E outcome \in BatchOutcomes : BatchSettle(outcome)
    \/ BatchUpdate
    \/ BatchDelayElapsed
    \/ BatchReturn

SpecStores == InitStores /\ [][NextStores]_vars

\* batches of the library and of the script over imported stores
InitBatch ==
    /\ stores \in {{}, {ImportedStore(1, KnownStation)}}
                   \cup {{ImportedStore(1, KnownStation), ImportedStore(2, ToStation(e))} :
                            e \in {x \in SampleElements : HasCoordinatesAndName(x)}}
    /\ stores_seq = Cardinality(stores)
    /\ energy_drinks = SampleDrinks
    /\ drinks_seq = Cardinality(SampleDrinks)
    /\ store_inventory = {}
    /\ inventory_seq = 0
    /\ now = 0
    /\ InitIdle

NextBatch ==
    \/ \E addresses \in AddressLists : BatchGeocodeAddresses(addresses)
    \/ \E forceAll, dryRun \in BOOLEAN : GeocodeStores(forceAll, dryRun)
    \/ BatchRound
    \/ \E outcome \in BatchOutcomes : BatchSettle(outcome)
    \/ BatchUpdate
    \/ BatchDelayElapsed
    \/ BatchReturn

SpecBatch == InitBatch /\ [][NextBatch]_vars

\* product and store searches over an empty catalog, a small one and
\* catalogs around the size of a full answer
InitSearch ==
    /\ stores = SampleStores
    /\ stores_seq = Cardinality(SampleStores)
    /\ energy_drinks \in {Catalog(n) : n \in {0, 3, MaxCatalog - 1, MaxCatalog}}
    /\ drinks_seq = Cardinality(energy_drinks)
    /\ store_inventory = {}
    /\ inventory_seq = 0
    /\ now = 0
    /\ InitIdle

NextSearch ==
    \/ \E q \in AutocompleteQueries, ok \in BOOLEAN, ties \in {"ascending", "descending"} :
          AutocompleteGet(q, ok, ties)
    \/ \E params \in SearchRequests : SearchGet(params)

SpecSearch == InitSearch /\ [][NextSearch]_vars

(***************************************************************************)
(* Properties of POST /api/scan.                                           *)
(***************************************************************************)
\* handler r executes its upsert statement in this step and answers 200
UpsertStep(r) ==
    /\ scan[r].pc = "upsert"
    /\ scan'[r].pc = "done"
    /\ scan'[r].response.status = 200

\* the rows of (store, drink) of handler r, before and after a step
RowsBefore(r) == ConflictRows(store_inventory, scan[r].store, scan[r].drink)
RowsAfter(r) == ConflictRows(store_inventory', scan[r].store, scan[r].drink)

\* a table without its last_updated column
WithoutTimestamp(inv) ==
    {[id |-> row.id, store_id |-> row.store_id, drink_id |-> row.drink_id,
      price |-> row.price, in_stock |-> row.in_stock] : row \in inv}

\* C1: whatever scans ran and however their steps interleaved, the inventory
\* table holds at most one row for each (store, product) pair.
C1_OneRowPerStoreDrink ==
    \A a, b \in store_inventory :
        (a.store_id = b.store_id /\ a.drink_id = b.drink_id) => a = b

\* C1 witness: two scans of the same barcode resolved to the same store have
\* both written, and their responses carry the same row.
C1_Witness ==
    /\ scan[1].pc = "done" /\ scan[1].response.status = 200
    /\ scan[2].pc = "done" /\ scan[2].response.status = 200
    /\ scan[1].store = scan[2].store /\ scan[1].drink = scan[2].drink
    /\ scan[1].response.inventory.id = scan[2].response.inventory.id
    /\ inventory_seq >= 2

\* C2: a successful scan that finds the row of its (store, product) pair
\* already carrying its price and in_stock (the same request was applied
\* before) leaves the table as it was, the last-updated column aside.
C2_UpsertIdempotent ==
    [][\A r \in Handlers :
          (/\ UpsertStep(r)
           /\ \E row \in RowsBefore(r) :
                 /\ row.price = ToDecimal62(ScanPrice(scan[r].body))
                 /\ row.in_stock = ScanInStock(scan[r].body))
          => WithoutTimestamp(store_inventory') = WithoutTimestamp(store_inventory)]_vars

\* C2 witness: the same request was answered 200 twice for the same store, at
\* different times, and the table holds the one row both wrote.
C2_Witness ==
    /\ scan[1].pc = "done" /\ scan[1].response.status = 200
    /\ scan[2].pc = "done" /\ scan[2].response.status = 200
    /\ scan[1].body = scan[2].body
    /\ scan[1].store = scan[2].store
    /\ scan[1].response.inventory.last_updated # scan[2].response.inventory.last_updated
    /\ WithoutTimestamp({scan[1].response.inventory})
           = WithoutTimestamp({scan[2].response.inventory})
    /\ scan[2].response.inventory \in store_inventory

\* C3: a successful scan answers was_created = true exactly when no row of
\* the (store, product) pair existed before its upsert.
C3_WasCreatedIffNew ==
    [][\A r \in Handlers :
          UpsertStep(r) => (scan'[r].response.was_created <=> RowsBefore(r) = {})]_vars

\* C4 as stated: after a successful scan the row of the pair carries the
\* price of the request (0 when none), the in_stock of the request (true when
\* none), and a last-updated timestamp not earlier than before.
C4_RowCarriesRequest ==
    [][\A r \in Handlers :
          UpsertStep(r) =>
             /\ RowsAfter(r) # {}
             /\ \A row \in RowsAfter(r) :
                   /\ row.price * 10
                        = (IF scan[r].body.price = Undefined THEN 0
                           ELSE scan[r].body.price.n)
                   /\ row.in_stock
                        = (IF scan[r].body.in_stock = Undefined THEN TRUE
                           ELSE scan[r].body.in_stock.b)
                   /\ \A old \in RowsBefore(r) : row.last_updated >= old.last_updated]_vars

\* thousandths rounded half up to hundredths (prices are not negative here)
RoundedToHundredths(thousandths) ==
    CHOOSE h \in {thousandths \div 10, thousandths \div 10 + 1} :
        10 * h - 5 <= thousandths /\ thousandths < 10 * h + 5

\* C4 amended: after a successful scan the row of the pair carries the price
\* of the request rounded to two decimal places (0 when none), the in_stock
\* of the request (true when none), and a last-updated timestamp not earlier
\* than before.
C4_RowCarriesRoundedRequest ==
    [][\A r \in Handlers :
          UpsertStep(r) =>
             /\ RowsAfter(r) # {}
             /\ \A row \in RowsAfter(r) :
                   /\ row.price
                        = (IF scan[r].body.price = Undefined THEN 0
                           ELSE RoundedToHundredths(scan[r].body.price.n))
                   /\ row.in_stock
                        = (IF scan[r].body.in_stock = Undefined THEN TRUE
                           ELSE scan[r].body.in_stock.b)
                   /\ \A old \in RowsBefore(r) : row.last_updated >= old.last_updated]_vars

\* C4 witness: a scan with a price and in_stock = false has overwritten, at a
\* later time, a row that held another price and in_stock = true.
C4_Witness ==
    \E r \in Handlers :
        /\ scan[r].pc = "done" /\ scan[r].response.status = 200
        /\ scan[r].body.price = Num(2995) /\ scan[r].body.in_stock = Bool(FALSE)
        /\ scan[r].response.inventory \in store_inventory
        /\ scan[r].response.inventory.price = 300
        /\ ~scan[r].response.inventory.in_stock
        /\ scan[r].response.inventory.last_updated > 0
        /\ scan[r].response.inventory.id = 1

\* what a request carries, read off its body
BarcodeMissing(body) == body.barcode = Undefined \/ body.barcode = Str("")
HasStoreId(body) == body.store_id.t = "number"
HasCoordinatePair(body) == body.latitude.t = "number" /\ body.longitude.t = "number"

\* handler r answers in this step
AnswerStep(r) == scan[r].pc # "done" /\ scan'[r].pc = "done"

\* C5: a scan is answered 400 exactly when its barcode is missing or it
\* carries neither a store id nor a numeric latitude/longitude pair (so every
\* request with a barcode and a store id or numeric pair passes validation),
\* and a scan answered 400 leaves the inventory table unchanged.
C5_Rejected400IffMissing ==
    /\ [](\A r \in Handlers :
            scan[r].pc = "done" =>
               (scan[r].response.status = 400
                  <=> \/ BarcodeMissing(scan[r].body)
                      \/ (~HasStoreId(scan[r].body) /\ ~HasCoordinatePair(scan[r].body))))
    /\ [][\A r \in Handlers :
             (AnswerStep(r) /\ scan'[r].response.status = 400)
                => store_inventory' = store_inventory]_vars

\* no product carries the barcode of the request
NoSuchProduct(body) ==
    \A d \in energy_drinks : body.barcode # d.barcode

\* the request carries a store id and no store has it
NoSuchStore(body) ==
    HasStoreId(body) /\ \A s \in stores : s.id # body.store_id.n

\* C6: a scan that passes validation with a barcode that matches no product,
\* or with a store id that matches no store, is answered 404 with
\* success = false and leaves the inventory table unchanged.
C6_NotFound404 ==
    /\ [](\A r \in Handlers :
            (/\ scan[r].pc = "done"
             /\ scan[r].response.status # 400
             /\ (NoSuchProduct(scan[r].body) \/ NoSuchStore(scan[r].body)))
            => (scan[r].response.status = 404 /\ ~scan[r].response.success))
    /\ [][\A r \in Handlers :
             (/\ AnswerStep(r)
              /\ scan'[r].response.status # 400
              /\ (NoSuchProduct(scan'[r].body) \/ NoSuchStore(scan'[r].body)))
             => store_inventory' = store_inventory]_vars

\* the point of the coordinates of a request
BodyPoint(body) == <<body.longitude.n, body.latitude.n>>

\* the price of the request fits the price column
PriceStorable(body) ==
    body.price = Undefined \/ RoundedToHundredths(body.price.n) < 1000000

NearbyAnswered == nearby.pc = "done" /\ nearby.response.status = 200

\* the number a numeral stands for
NumeralValue(c) == CHOOSE k \in 0..99 : Numeral(k) = c

\* the radius (km) and the limit a request asks for
RequestedRadius(params) ==
    IF params.radius = Null THEN DefaultRadius ELSE NumeralValue(params.radius.c)
RequestedLimit(params) ==
    IF params.limit = Null THEN DefaultLimit ELSE NumeralValue(params.limit.c)

\* the point a request asks about
RequestedPoint(params) ==
    <<NumeralValue(params.longitude.c), NumeralValue(params.latitude.c)>>

\* the distance (km) of the store with this id from a point
StoreDistanceKm(id, point) ==
    LET s == CHOOSE s \in stores : s.id = id
    IN ST_Distance(s.location, point) \div 1000

C9_WithinRadius ==
    NearbyAnswered =>
        LET list == nearby.response.stores
            point == RequestedPoint(nearby.params)
            radius == RequestedRadius(nearby.params)
            limit == RequestedLimit(nearby.params)
        IN /\ \A i \in DOMAIN list :
                 /\ list[i].distance_km <= radius
                 /\ \E s \in stores :
                       s.id = list[i].id /\ ST_Distance(s.location, point) <= radius * 1000
           /\ \A s \in stores :
                 (/\ ST_Distance(s.location, point) <= radius * 1000
                  /\ \A i \in DOMAIN list : list[i].id # s.id)
                 => /\ Len(list) = limit
                    /\ \A i \in DOMAIN list :
                          list[i].distance_km * 1000 <= ST_Distance(s.location, point)

\* C9 witness: with limit 1 and two stores within the radius the response
\* holds one of them, and a store beyond the radius is left out.
C9_Witness ==
    /\ NearbyAnswered
    /\ Len(nearby.response.stores) = 1
    /\ RequestedLimit(nearby.params) = 1
    /\ Cardinality({s \in stores :
           ST_Distance(s.location, RequestedPoint(nearby.params))
              <= RequestedRadius(nearby.params) * 1000}) = 2
    /\ \E s \in stores :
           ST_Distance(s.location, RequestedPoint(nearby.params))
              > RequestedRadius(nearby.params) * 1000

\* the parameter is present and is a number
NumericText(param) ==
    /\ param.t = "text"
    /\ param.c # <<>>
    /\ \A i \in DOMAIN param.c : IsDigit(param.c[i])

\* C10: a nearby request is answered 400 exactly when its latitude or its
\* longitude is missing or not a number; with a numeric latitude and a
\* numeric longitude it is answered 200 when the query succeeds.
C10_Rejected400IffNotNumeric ==
    nearby.pc = "done" =>
        /\ nearby.response.status = 400
              <=> ~(NumericText(nearby.params.latitude)
                    /\ NumericText(nearby.params.longitude))
        /\ nearby.response.status \in {200, 400, 500}

(***************************************************************************)
(* The geocode endpoints.                                                  *)
(***************************************************************************)
GeocodeAnswered == geocode.pc = "done"

ZeroCandidates(outcome) == outcome.kind = "json" /\ outcome.data = <<>>

SomeCandidates(outcome) == outcome.kind = "json" /\ outcome.data # <<>>

FirstCandidate(outcome) ==
    GeocodeResult(ParseNumber(outcome.data[1].lat), ParseNumber(outcome.data[1].lon),
                  outcome.data[1].display_name)

\* C11: a geocode request of either method is answered 404 exactly when the
\* provider returned zero candidates; when the provider returned one or more
\* candidates it is answered 200 with the coordinates and the display name of
\* the first; a missing API key, a provider HTTP error and a network error are
\* answered 500.
C11_GeocodeStatus ==
    GeocodeAnswered =>
        /\ geocode.response.status = 404 <=> ZeroCandidates(geocode.outcome)
        /\ SomeCandidates(geocode.outcome) =>
              /\ geocode.response.status = 200
              /\ geocode.response.data = FirstCandidate(geocode.outcome)
        /\ geocode.outcome.kind \in {"http", "network"} => geocode.response.status = 500
        /\ (Falsy(env.GEOCODING_API_KEY) /\ geocode.response.status # 400) =>
              geocode.response.status = 500

\* the address strings a request supplies
AddressStrings(req) == {v \in {req.q, req.address} : v.t = "text"}

Blank(v) == Trim(v.c) = <<>>

\* no address string, or only empty or whitespace-only ones, and no city,
\* state or postal-code component
NoUsableAddress(req) ==
    /\ \A v \in AddressStrings(req) : Blank(v)
    /\ \A v \in {req.city, req.state, req.zip, req.zip_code} : Falsy(v)

\* C12: a geocode request that supplies no usable address (no address string
\* and no city, state or postal-code component, or an address string that is
\* empty or whitespace only) is answered 400 and the provider is not called.
C12_NoUsableAddress400 ==
    (GeocodeAnswered /\ NoUsableAddress(geocode.request)) =>
        /\ geocode.response.status = 400
        /\ geocode.fetches = 0

(***************************************************************************)
(* The catalog manage endpoint.                                            *)
(***************************************************************************)
NoDuplicateProducts ==
    \A d1, d2 \in energy_drinks :
        (d1.brand = d2.brand /\ d1.flavor = d2.flavor /\ d1.size_ml = d2.size_ml) => d1 = d2

\* the step is a create or an update that was answered
CreateOrUpdateStep == manage' # manage /\ manage'.op \in {"create", "update"}

\* the (brand, flavor, size) a create asks for, when it names all three
AsksFor(body) ==
    <<body.brand.s, body.flavor.s, ParseInt(body.size_ml).n>>

\* the request of the step asks for a product whose (brand, flavor, size) a
\* row of the catalog (another row, for an update) already has
WouldDuplicate ==
    LET body == manage'.request IN
    IF manage'.op = "create"
    THEN /\ Truthy(body.brand) /\ Truthy(body.flavor) /\ Truthy(body.size_ml)
         /\ ParseInt(body.size_ml) # NaN
         /\ \E d \in energy_drinks : <<d.brand, d.flavor, d.size_ml>> = AsksFor(body)
    ELSE /\ body.id # Undefined
         /\ ParseInt(body.size_ml) # NaN
         /\ \E old \in energy_drinks :
              /\ old.id = body.id.n
              /\ \E d \in energy_drinks \ {old} :
                    /\ d.brand = (IF body.brand = Undefined THEN old.brand ELSE body.brand.s)
                    /\ d.flavor = (IF body.flavor = Undefined THEN old.flavor ELSE body.flavor.s)
                    /\ d.size_ml = body.size_ml.n

\* C13: no two products of the catalog share (brand, flavor, size), and a
\* create or update that would produce a duplicate is answered with an error
\* response and leaves the catalog unchanged.
C13_NoDuplicateProducts ==
    /\ []NoDuplicateProducts
    /\ [][(CreateOrUpdateStep /\ WouldDuplicate) =>
            /\ ~manage'.response.success
            /\ manage'.response.status \in {400, 404, 500}
            /\ energy_drinks' = energy_drinks]_vars

\* C13 witness: a create or update asking for an existing (brand, flavor, size)
\* was rejected while the catalog holds a product created earlier
C13_Witness ==
    /\ manage.op \in {"create", "update"}
    /\ ~manage.response.success
    /\ manage.response.status = 500
    /\ Cardinality(energy_drinks) > Cardinality(SampleDrinks)
    /\ manage.op = "create" =>
          \E d \in energy_drinks :
              /\ manage.request.size_ml.t \in {"number", "text"}
              /\ ParseInt(manage.request.size_ml) # NaN
              /\ <<d.brand, d.flavor, d.size_ml>> = AsksFor(manage.request)
    /\ manage.op = "update" =>
          /\ manage.request.id # Undefined
          /\ manage.request.size_ml # Undefined
          /\ \E old \in energy_drinks : \E d \in energy_drinks \ {old} :
                /\ old.id = manage.request.id.n
                /\ d.brand = (IF manage.request.brand = Undefined THEN old.brand
                              ELSE manage.request.brand.s)
                /\ d.flavor = (IF manage.request.flavor = Undefined THEN old.flavor
                               ELSE manage.request.flavor.s)
                /\ d.size_ml = manage.request.size_ml.n

(***************************************************************************)
(* Store import and batch geocoding.                                       *)
(***************************************************************************)
\* C14: after any sequence of store inserts (discovery import) and updates
\* of latitude/longitude (batch geocoding), the geography point of every
\* store is the point of the store's current longitude and latitude.
C14_LocationFollowsCoordinates ==
    \A s \in stores : s.location[1] = s.longitude /\ s.location[2] = s.latitude

\* C14 witness: a store inserted by a discovery run has since been given the
\* coordinates of a geocoding candidate by the script
C14_Witness ==
    \E s \in stores : \E c \in SampleCandidates :
        /\ s.id > 1
        /\ Num(s.latitude) = ParseNumber(c.lat)
        /\ Num(s.longitude) = ParseNumber(c.lon)

\* address and city without letter case
AddressKey(r) == <<ToLowerCase(r.address), ToLowerCase(r.city)>>

\* the step ends the processing of a station of an auto-import
StationStep == Len(discover'.results) = Len(discover.results) + 1

ProcessedStation == discover.stations[discover.i]

ReportedStatus == discover'.results[Len(discover'.results)].status

AlreadyStored(station) == \E s \in stores : AddressKey(s) = AddressKey(station)

\* the lookup of the station is the statement that failed
LookupFailed == discover.pc = "check" /\ ReportedStatus = "error"

\* no two stations added by the run have the same address and city
AddedDistinct ==
    \A j, k \in 1..Len(discover.results) :
        (/\ j < k
         /\ discover.results[j].status = "added"
         /\ discover.results[k].status = "added")
        => AddressKey(discover.results[j].station) # AddressKey(discover.results[k].station)

ImportFinished ==
    /\ discover.pc = "done"
    /\ discover.overpass = "replied"
    /\ discover.body.autoImport = Bool(TRUE)

\* C17: in an auto-import, a failure to check or to insert a station is
\* reported with status 'error' for that station only: the stations after it
\* are still processed, the stations inserted before it stay inserted, and
\* the response is 200 with one report per station.
C17_FailureConfined ==
    /\ [](ImportFinished =>
            /\ discover.response.status = 200
            /\ Len(discover.results) = Len(discover.stations)
            /\ \A k \in 1..Len(discover.results) :
                  /\ discover.results[k].station = discover.stations[k]
                  /\ discover.results[k].status \in {"added", "skipped", "error"}
                  /\ discover.results[k].status = "added" =>
                        \E s \in stores : /\ s.address = discover.stations[k].address
                                          /\ s.city = discover.stations[k].city
                  /\ discover.results[k].status = "skipped" =>
                        AlreadyStored(discover.stations[k]))
    /\ [][(StationStep /\ ReportedStatus = "error") =>
            /\ stores' = stores
            /\ SubSeq(discover'.results, 1, Len(discover.results)) = discover.results
            /\ IF discover.i < Len(discover.stations)
               THEN discover'.pc = "check" /\ discover'.i = discover.i + 1
               ELSE discover'.pc = "done" /\ discover'.response.status = 200]_vars

\* C17 witness: a finished auto-import reports an error for one station and
\* an insert or a skip for a later one
C17_Witness ==
    /\ ImportFinished
    /\ \E j, k \in 1..Len(discover.results) :
          /\ j < k
          /\ discover.results[j].status = "error"
          /\ discover.results[k].status \in {"added", "skipped"}

(***************************************************************************)
(* Batch geocoding.                                                        *)
(***************************************************************************)
\* two neighbours of the log are requests: no delay lies between them
ConsecutiveRequests ==
    \E k \in 1..(Len(batch.log) - 1) :
        batch.log[k].event = "request" /\ batch.log[k + 1].event = "request"

\* the batch waited after its last address
DelayAfterLast ==
    \E k \in 1..Len(batch.log) :
        batch.log[k].event = "delay" /\ batch.log[k].round = Len(batch.items)

\* C20: in a batch (batchGeocodeAddresses, the geocode-stores script) a delay
\* lies between every two consecutive requests to the geocoding provider,
\* whatever the outcome of the earlier one, and no delay follows the last
\* address.
C20_DelayBetweenRequests == ~ConsecutiveRequests /\ ~DelayAfterLast

\* no delay follows the last address of a batch
NoDelayAfterLast == ~DelayAfterLast

(***************************************************************************)
(* The product autocomplete endpoint.                                      *)
(***************************************************************************)
AutocompleteAnswered == autocomplete.response.status = 200

\* row a stands at or before row b in the order brand ascending, then flavor ascending
BrandFlavorOrder(a, b) ==
    \/ StringLess(Spell(a.brand), Spell(b.brand))
    \/ a.brand = b.brand /\ ~StringLess(Spell(b.flavor), Spell(a.flavor))

EmptyQuery(q) == q = Null \/ q = Text(<<>>)

\* C19: the autocomplete endpoint answers with at most 20 products of the
\* catalog, ordered by brand ascending and then flavor ascending, for every
\* query and catalog; an empty query is answered with an empty list and the
\* catalog is not queried.
C19_BoundedSorted ==
    AutocompleteAnswered =>
        LET drinks == autocomplete.response.drinks IN
        /\ Len(drinks) <= 20
        /\ \A j, k \in 1..Len(drinks) : j < k => BrandFlavorOrder(drinks[j], drinks[k])
        /\ \A j \in 1..Len(drinks) : \E d \in energy_drinks : d.id = drinks[j].id
        /\ EmptyQuery(autocomplete.q) => (drinks = <<>> /\ autocomplete.queries = 0)

\* C19 witness: a query that matches more than 20 products was answered with 20
C19_Witness ==
    /\ AutocompleteAnswered
    /\ Len(autocomplete.response.drinks) = 20
    /\ Cardinality(energy_drinks) > 20
    /\ \E j, k \in 1..20 :
          autocomplete.response.drinks[j].brand # autocomplete.response.drinks[k].brand

(***************************************************************************)
(* The error responses of the handlers.                                    *)
(***************************************************************************)
ErrorStatus(response) == response.status >= 400

\* an error response whose body carries success = false, with one of the
\* three statuses; `success` is a boolean where the handler always sends it
Envelope(response) ==
    ErrorStatus(response) =>
        /\ response.success = FALSE
        /\ response.status \in {400, 404, 500}

\* the same for the handlers whose bodies may lack the field
TaggedEnvelope(response) ==
    ErrorStatus(response) =>
        /\ response.success = Bool(FALSE)
        /\ response.status \in {400, 404, 500}

\* the last manage request was an update or a delete that failed, and its id
\* is the id of no product
UnknownProductId ==
    /\ manage.op \in {"update", "delete"}
    /\ ~manage.response.success
    /\ LET id == IF manage.op = "update" THEN manage.request.id ELSE manage.request
       IN  /\ Truthy(id)
           /\ ParseInt(id) # NaN
           /\ \A d \in energy_drinks : d.id # ParseInt(id).n

\* the error responses of the product autocomplete and store search handlers
\* carry success = false
SearchErrorEnvelope ==
    TaggedEnvelope(autocomplete.response) /\ TaggedEnvelope(search.response)

\* C18: every error response of every handler (scan, nearby, discover,
\* geocode, catalog manage, product autocomplete, search) is a JSON envelope
\* with success = false and a status among 400, 404 and 500; a catalog update
\* or delete whose id matches no product is answered 404.
C18_ErrorEnvelope ==
    /\ \A r \in Handlers : Envelope(scan[r].response)
    /\ Envelope(nearby.response)
    /\ Envelope(discover.response)
    /\ Envelope(geocode.response)
    /\ Envelope(manage.response)
    /\ SearchErrorEnvelope
    /\ UnknownProductId => manage.response.status = 404


(***************************************************************************)
(* The geocode-stores script in dry-run mode.                              *)
(***************************************************************************)
DryRun(b) == b.kind = "script" /\ b.dryRun

\* C21: no step of a run of the geocode-stores script in dry-run mode, with
\* or without --all, changes a row of the stores table, whatever the stores
\* and whatever the provider answers.
C21_DryRunChangesNothing ==
    [][(DryRun(batch) \/ DryRun(batch')) => stores' = stores]_vars

\* C21 witness: a dry run over all stores has geocoded a store whose
\* coordinates differ from the provider's
C21_Witness ==
    /\ DryRun(batch)
    /\ batch.forceAll
    /\ batch.successCount >= 1
    /\ \E s \in stores : \A c \in SampleCandidates : Num(s.latitude) # ParseNumber(c.lat)


(***************************************************************************)
(* The array batchGeocodeAddresses returns.                                *)
(***************************************************************************)
Library(b) == b.kind = "library"

\* what geocodeAddress yields for the address of the round when the provider
\* answers with the outcome: its result, or null for a thrown error
EntryFor(b, outcome) ==
    LET before == BeforeFetch(b.items[b.i])
    IN  IF ~before.ok THEN Null
        ELSE LET after == AfterFetch(before.value, outcome)
             IN  IF after.ok THEN after.value ELSE Null

\* the entries pushed so far are those of the rounds that have ended
EntriesFollowRounds ==
    Library(batch) =>
        /\ batch.pc \in {"loop", "fetch"} => Len(batch.results) = batch.i - 1
        /\ batch.pc = "delay" => Len(batch.results) = batch.i
        /\ batch.pc = "done" => Len(batch.results) = Len(batch.items)

\* a step of the batch pushes at most the entry of its round
EntryOfRound ==
    (Library(batch) /\ Library(batch')) =>
        /\ batch.pc = "fetch" =>
              \A outcome \in BatchOutcomes :
                  BatchSettle(outcome) =>
                      batch'.results = Append(batch.results, EntryFor(batch, outcome))
        /\ (batch.pc = "loop" /\ batch.i <= Len(batch.items)) =>
              batch'.results = IF BeforeFetch(batch.items[batch.i]).ok
                               THEN batch.results
                               ELSE Append(batch.results, Null)
        /\ (batch.pc \notin {"fetch", "loop"} \/ batch.i > Len(batch.items)) =>
              batch'.results = batch.results

\* C22: batchGeocodeAddresses returns one entry per input address, in input
\* order: entry i is the geocoding result of address i, or null when
\* geocoding address i failed; a failure neither ends the batch nor shifts
\* the entries of later addresses.
C22_OneEntryPerAddress ==
    []EntriesFollowRounds /\ [][EntryOfRound]_vars

\* C22 witness: a batch returns a result after a null
C22_Witness ==
    /\ Library(batch)
    /\ batch.pc = "done"
    /\ Len(batch.results) = 2
    /\ batch.results[1] = Null
    /\ batch.results[2] # Null

\* the add-inventory page in the browser of one user
InitAddPage ==
    /\ stores = SampleStores
    /\ stores_seq = Cardinality(SampleStores)
    /\ energy_drinks = SampleDrinks
    /\ drinks_seq = Cardinality(SampleDrinks)
    /\ store_inventory = {}
    /\ inventory_seq = 0
    /\ now = 0
    /\ InitIdle

NextAddPage ==
    \/ \E id \in PageStores : AddSelectStore(id)
    \/ AddStartScanning
    \/ \E ok \in BOOLEAN : AddCameraSettle(ok)
    \/ \E barcode \in PageBarcodes : AddDetect(barcode)
    \/ \E k \in 1..MaxRequests, ok \in BOOLEAN : AddResponse(k, ok)
    \/ AddStopScanning
    \/ \E index \in 1..MaxRequests : AddRemoveItem(index)

SpecAddPage == InitAddPage /\ [][NextAddPage]_vars


(***************************************************************************)
(* The add-inventory page.                                                 *)
(***************************************************************************)
\* the step sends a scan request
PageSends == Len(addpage'.requests) = Len(addpage.requests) + 1

SentRequest == addpage'.requests[Len(addpage'.requests)]

\* C23: every scan request the add-inventory page sends for a detected
\* barcode carries the store that is selected when the barcode is detected,
\* also when the user changed the selection after scanning was started.
C23_RequestCarriesSelectedStore ==
    [][PageSends => SentRequest.store_id = addpage.selectedStoreId]_vars

\* C24: while scanning is running, no scan request is sent for a barcode that
\* is in the scanned-items list, so a barcode the camera reports repeatedly
\* is sent once and listed once.
C24_ListedBarcodeNotSentAgain ==
    [][PageSends => ~AlreadyScanned(addpage.scannedItems, SentRequest.barcode)]_vars


(***************************************************************************)
(* Scans and catalog deletes over the same database.                       *)
(***************************************************************************)
\* scans of a known product at store 1 and deletes of products
RaceBodies ==
    {ScanBody(Str("b1"), Num(1), Undefined, Undefined, price, Undefined) :
        price \in {Undefined, Num(2995)}}

RaceDeletes == {Text(Numeral(k)) : k \in 1..2}

InitRace ==
    /\ stores = SampleStores
    /\ stores_seq = Cardinality(SampleStores)
    /\ energy_drinks = SampleDrinks
    /\ drinks_seq = Cardinality(SampleDrinks)
    /\ store_inventory \in {{}, SampleInventory}
    /\ inventory_seq = Cardinality(store_inventory)
    /\ now = 0
    /\ InitIdle

NextRace ==
    \/ \E body \in RaceBodies : ScanReceive(nscans + 1, body)
    \/ \E r \in Handlers : ScanLookupDrink(r)
    \/ \E r \in Handlers : ScanResolveStore(r)
    \/ \E r \in Handlers : ScanUpsert(r)
    \/ \E idParam \in RaceDeletes : ManageDelete(idParam)

SpecRace == InitRace /\ [][NextRace]_vars

\* C25: after any interleaving of scan requests and catalog deletes, every
\* inventory row references a store and a product that exist: a delete takes
\* the inventory rows of its product with it, and a scan whose product was
\* deleted after its lookup leaves no row for that product.
C25_InventoryReferencesExist ==
    \A row \in store_inventory :
        /\ \E s \in stores : s.id = row.store_id
        /\ \E d \in energy_drinks : d.id = row.drink_id

\* C25 witness: a scan found its product, the product was deleted, and the
\* scan's statement came after the delete
C25_Witness ==
    \E r \in Handlers :
        /\ scan[r].pc = "done"
        /\ scan[r].drink = 1
        /\ scan[r].response.status = 500
        /\ \A d \in energy_drinks : d.id # 1
        /\ manage.op = "delete"
        /\ manage.response.success


(***************************************************************************)
(* The search-as-you-type component.                                       *)
(***************************************************************************)
InitDrinkSearch ==
    /\ stores = SampleStores
    /\ stores_seq = Cardinality(SampleStores)
    /\ energy_drinks = SampleDrinks
    /\ drinks_seq = Cardinality(SampleDrinks)
    /\ store_inventory = {}
    /\ inventory_seq = 0
    /\ now = 0
    /\ InitIdle

NextDrinkSearch ==
    \/ \E q \in TypedQueries : DrinkSearchType(q)
    \/ DrinkSearchTimer
    \/ \E id \in 1..MaxFetches, q \in TypedQueries \cup DrinkNames, ok \in BOOLEAN :
          DrinkSearchSettle([id |-> id, query |-> q], ok)
    \/ \E name \in DrinkNames : DrinkSearchSelect(name)

SpecDrinkSearch == InitDrinkSearch /\ [][NextDrinkSearch]_vars

\* the user has stopped typing and nothing is outstanding
SearchQuiet == ~drinksearch.timer.set /\ drinksearch.inflight = {}

\* C26: once the user has stopped typing and every outstanding request has
\* completed, the list the component shows is the answer to the latest query
\* text, whatever order the answers arrived in.
C26_ListAnswersLatestQuery ==
    (SearchQuiet /\ drinksearch.open) => drinksearch.drinks.answers = drinksearch.query

\* the last thing the user did was to select a drink
DrinkSelected == drinksearch.lastInput = "selected"

\* C27: after the user selects a drink the list is closed and stays closed
\* until the user edits the query again, and the selection leads to no
\* further search request.
C27_ClosedAfterSelect ==
    /\ [](DrinkSelected => ~drinksearch.open)
    /\ [][(DrinkSelected /\ DrinkSelected') => drinksearch'.fetches = drinksearch.fetches]_vars


(***************************************************************************)
(* The scan page.                                                          *)
(***************************************************************************)
InitScanPage ==
    /\ stores = SampleStores
    /\ stores_seq = Cardinality(SampleStores)
    /\ energy_drinks = SampleDrinks
    /\ drinks_seq = Cardinality(SampleDrinks)
    /\ store_inventory = {}
    /\ inventory_seq = 0
    /\ now = 0
    /\ InitIdle

PageLookups ==
    {Lookup(id, barcode, pc) :
        id \in 1..MaxLookups, barcode \in PageBarcodes, pc \in {"position", "fetch"}}

NextScanPage ==
    \/ PageStartScanning
    \/ PageScanAgain
    \/ \E ok \in BOOLEAN : PageCameraSettle(ok)
    \/ PageStopScanning
    \/ \E barcode \in PageBarcodes : PageDetect(barcode)
    \/ \E lookup \in PageLookups : PagePosition(lookup)
    \/ \E lookup \in PageLookups, outcome \in PageOutcomes : PageAnswer(lookup, outcome)

SpecScanPage == InitScanPage /\ [][NextScanPage]_vars

\* the step starts a lookup, and the reader is off after it
LookupStarts == scanpage'.started = scanpage.started + 1

ScannerStopsFirst ==
    LookupStarts => (scanpage'.reader = "off" /\ ~scanpage'.isScanning)

\* the step ends a lookup, and after it the indicator is off and the page
\* shows a drink or an error message, not both
LookupEnds == Cardinality(scanpage'.lookups) < Cardinality(scanpage.lookups)

ExactlyOneShown(page) == (page.scannedDrink # Null) # (page.error # <<>>)

LookupEndsClean ==
    LookupEnds => (~scanpage'.isLoading /\ ExactlyOneShown(scanpage'))

\* C28: each detected barcode stops the scanner before its lookup starts, and
\* the lookup ends with the loading indicator off and exactly one of a drink
\* or an error message shown, whatever the position request, the network call
\* and the scan endpoint do.
C28_LookupEndsWithOneResult ==
    [][ScannerStopsFirst /\ LookupEndsClean]_vars

\* every step that starts a lookup leaves the reader off
ScannerAlwaysStopsFirst == [][ScannerStopsFirst]_vars


(***************************************************************************)
(* The ingest script and the scans of ingested products.                   *)
(***************************************************************************)
\* an empty catalog, or one product without a barcode
InitIngest ==
    /\ stores = SampleStores
    /\ stores_seq = Cardinality(SampleStores)
    /\ energy_drinks \in {{}, {DrinkRow(1, "Red Bull", "Original", 250, Num(80), Null)}}
    /\ drinks_seq = Cardinality(energy_drinks)
    /\ store_inventory = {}
    /\ inventory_seq = 0
    /\ now = 0
    /\ InitIdle

NextIngest ==
    \/ \E drink \in SeedDrinks : IngestLookup(drink)
    \/ IngestWrite
    \/ \E upc \in SeedUpcs :
          ScanReceive(1, ScanBody(upc, Num(1), Undefined, Undefined, Undefined, Undefined))
    \/ ScanLookupDrink(1)
    \/ ScanResolveStore(1)
    \/ ScanUpsert(1)
    \/ ScanReturn(1)

SpecIngest == InitIngest /\ [][NextIngest]_vars

\* the step is the product lookup of a scan of the UPC of an ingested product
ScansIngestedUpc(r) ==
    /\ scan[r].pc = "lookupDrink"
    /\ scan'[r].pc # "lookupDrink"
    /\ \E drink \in ingest.ingested : drink.upc = scan[r].body.barcode

\* the lookup resolved to a product ingested with the UPC of the scan
ResolvedToIngested(r) ==
    /\ scan'[r].pc = "resolveStore"
    /\ \E drink \in ingest.ingested, d \in energy_drinks :
          /\ drink.upc = scan[r].body.barcode
          /\ d.id = scan'[r].drink
          /\ d.brand = drink.brand
          /\ d.flavor = drink.flavor

\* C29: a product ingested from the seed file with UPC u is found by a later
\* scan of barcode u: the scan resolves to the ingested product and is not
\* answered 'drink not found'.
C29_IngestedUpcIsFound ==
    [][\A r \in Handlers : ScansIngestedUpc(r) => ResolvedToIngested(r)]_vars


(***************************************************************************)
(* Two auto-imports of overlapping areas at the same time.                 *)
(***************************************************************************)
\* an auto-import of the area of the sample elements
ImportBody == DiscoverBody(Num(1), Num(1), Undefined, Bool(TRUE))

InitOverlap ==
    /\ stores = {ImportedStore(1, SeededStation)}
    /\ stores_seq = Cardinality(stores)
    /\ energy_drinks = SampleDrinks
    /\ drinks_seq = Cardinality(SampleDrinks)
    /\ store_inventory = {}
    /\ inventory_seq = 0
    /\ now = 0
    /\ InitIdle

NextOverlap ==
    \/ DiscoverReceive(ImportBody)
    \/ DiscoverFetch
    \/ \E l \in StationLists : DiscoverSettle(OverpassElements(l))
    \/ DiscoverCheck(TRUE)
    \/ DiscoverInsert(TRUE)
    \/ DiscoverReturn
    \/ ConcurrentReceive(ImportBody)
    \/ ConcurrentFetch
    \/ \E l \in StationLists : ConcurrentSettle(OverpassElements(l))
    \/ ConcurrentCheck(TRUE)
    \/ ConcurrentInsert(TRUE)
    \/ ConcurrentReturn

SpecOverlap == InitOverlap /\ [][NextOverlap]_vars

\* the stores the imports inserted: the rows after the seeded one
ImportedStations == {s \in stores : s.id > 1}

\* C30: when two auto-import discovery requests for overlapping areas run
\* concurrently, the stores table holds at most one row per case-insensitive
\* (address, city) among the imported stations.
C30_OneRowPerAddress ==
    \A s, t \in ImportedStations : AddressKey(s) = AddressKey(t) => s = t

====
